---- MODULE Spec2Model ----
(***************************************************************************)
(* hintlib.services: the channel supervisor (SenderService), the bounded   *)
(* delivery queue and its worker (SubmitterServiceMixin), the compression  *)
(* stage (StreamSubmitterService), the restarting task (RestartingTask     *)
(* with hintlib.utils.ExponentialBackOff) and the peer lock                *)
(* (PeerLockService); hintlib.cache: the caching requester                 *)
(* (AdvancedRequester).  All are state machines over one cooperative event *)
(* loop.  One action is one synchronous stretch of code between two        *)
(* suspension points of the loop.                                          *)
(***************************************************************************)
EXTENDS Naturals, Integers, Sequences, FiniteSets, Bags, TLC

VARIABLES
    \* PresenceClient and the lock state of SenderService
    present,          \* resources of the peer identity that are currently present
    locked_to,        \* SenderService.__locked_to (NoJid for None)
    lock_event,       \* SenderService.__lock_event (value of the asyncio.Event)
    ev_fut,           \* the future wrapping __lock_event.wait() of the current iteration
    \* SenderService supervisor
    sup,              \* position of the _supervisor coroutine
    task_funs,        \* SenderService.__task_funs
    tasks,            \* the `tasks` dict of _supervisor: fun -> task
    shutdown_result,  \* how _shutdown() ended
    fresh,            \* history: a run completed or the signal was set since the last iteration
    \* SubmitterServiceMixin: the delivery queue
    queue,            \* items buffered in self._queue, oldest first
    maxsize,          \* self._queue.maxsize
    qgen,             \* identity of the asyncio.Queue object held in self._queue
    dropped,          \* history: items handed to _drop_item by overflow or resize, in order
    closed,           \* bag of items whose handle.close() was called
    next_id,          \* number of items enqueued so far (items are numbered in arrival order)
    resize_dropped,   \* history: number of items the queue_size setter has dropped
    \* SubmitterServiceMixin._impl
    impl_pc,          \* position of the _impl coroutine
    impl_item,        \* the local `item` of _impl (0 for none)
    impl_q,           \* the queue object _impl is suspended on in get()
    delivered,        \* history: items whose send succeeded, in order
    \* StreamSubmitterService: the compression stage
    front_queue,      \* self._front_queue
    comp_task,        \* state of the task running _compressor_task
    comp_item,        \* the local `item` of _compressor_task (0 for none)
    block_ok,         \* per submitted block: does _preprocess_item succeed on it
    pushed,           \* history: blocks whose compressed form was enqueued, in order
    comp_cancelled,   \* history: cancel() was called on a compressor task
    \* RestartingTask
    rt_should_run,    \* RestartingTask._should_run
    rt_task,          \* state of the asyncio task held in RestartingTask._task
    rt_current,       \* RestartingTask.backoff._current
    rt_failing,       \* RestartingTask.backoff._is_failing
    rt_soon,          \* number of pending loop.call_soon(_ensure_state) callbacks
    rt_timers,        \* bag of pending loop.call_later(delay, _ensure_state): time left
    rt_waiter,        \* position of one caller of wait_for_termination
    rt_nlive,         \* history: worker invocations created and not yet finished
    rt_crashes,       \* history: crashes in a row since the last start/stop/restart
    rt_due,           \* history: time left of the delay drawn at the last crash (-1: none)
    rt_origin,        \* history: what created the latest worker invocation
    rt_armed,         \* history: the last call was start() or restart()
    rt_retd,          \* history: a worker returned since the last start()/restart()
    rt_forced,        \* history: restart() asked for a cancel, no worker created since
    \* AdvancedRequester
    c_now,            \* datetime.utcnow(), in seconds
    c_cache,          \* AdvancedRequester._cache: cache key -> entry
    c_current,        \* AdvancedRequester.backoff._current
    c_failing,        \* AdvancedRequester.backoff._is_failing
    c_until,          \* AdvancedRequester.backing_off_until (-1 for None)
    c_req,            \* per caller: the request() call it is suspended in, if any
    c_fetches,        \* history: number of _perform_request calls made
    c_prev,           \* history: per parameter set, the entry stored before the last
    c_last,           \* history: per parameter set, the entry stored last
    c_window,         \* history: latest window end set by a failure without fallback
    c_done,           \* history: how the request() call that ended last has ended
    c_streak          \* history: back_off failures since the last successful fetch,
                      \*          and as many as the last successful fetch had before it
VARIABLES
    pl_presence,      \* PresenceClient: bare peer address -> resources that are present
    pl_state,         \* PeerLockService._state: bare peer address -> PeerHandle
    pl_made,          \* history: number of PeerHandle objects constructed
    pl_signals,       \* history: on_locked/on_unlocked fired by the last handler or call
    pl_result         \* history: the last handler or call and how it ended
VARIABLES
    bo_cfg,           \* ExponentialBackOff: start, base, max_
    bo_current,       \* ExponentialBackOff._current
    bo_failing,       \* ExponentialBackOff._is_failing
    bo_vals,          \* history: the values returned since construction or the last reset()
    bo_prev           \* history: the values returned before the last reset()

presVars  == <<present, locked_to, lock_event, ev_fut>>
supVars   == <<sup, task_funs, tasks, shutdown_result, fresh>>
queueVars == <<queue, maxsize, qgen, dropped, closed, next_id, resize_dropped>>
implVars  == <<impl_pc, impl_item, impl_q, delivered>>
compVars  == <<front_queue, comp_task, comp_item, block_ok, pushed, comp_cancelled>>
rtVars    == <<rt_should_run, rt_task, rt_current, rt_failing, rt_soon, rt_timers,
               rt_waiter, rt_nlive, rt_crashes, rt_due, rt_origin, rt_armed, rt_retd, rt_forced>>
\* the components that are not part of a channel
cacheVars == <<c_now, c_cache, c_current, c_failing, c_until, c_req, c_fetches, c_prev,
               c_last, c_window, c_done, c_streak>>
peerVars  == <<pl_presence, pl_state, pl_made, pl_signals, pl_result>>
backoffVars == <<bo_cfg, bo_current, bo_failing, bo_vals, bo_prev>>
extVars   == <<rtVars, cacheVars, peerVars, backoffVars>>
vars      == <<presVars, supVars, queueVars, implVars, compVars, extVars>>

-----------------------------------------------------------------------------
(* Bounds *)

\* number of items one channel run enqueues
MaxItems == 3
\* largest capacity the queue_size setter is called with
MaxCap == 2
\* number of times the queue_size setter is called
MaxResizes == 1
\* largest value a generic worker function returns
MaxVal == 1
\* number of items of the fill scenario (20 items into the default capacity)
FillItems == 20
\* number of raw blocks submitted to the compression stage
MaxBlocks == 4
\* crashes in a row of the supervised worker (delays 1, 2, 4, 8)
MaxCrashes == 4
\* pending call_later callbacks of a RestartingTask
MaxTimers == 2
\* _perform_request calls made
MaxFetches == 3
\* steps of the clock, each as long as the first back-off window
MaxTicks == 2
\* backend calls made where the backoff windows are waited out
WindowFetches == 5
\* calls of next(backoff) without a reset between
MaxAdvances == 4
\* backend calls made where requests have two cache keys
KeyFetches == 3

(* Program constants *)

\* asyncio.Queue(maxsize=16) of SubmitterServiceMixin.__init__
DefaultQueueSize == 16

Resources == {"r1", "r2"}
NoJid     == "none"
\* generic worker functions registered through add_task
Funs      == {"f1", "f2"}
\* the _impl method of the one submitter service of the channel
ImplFun   == "impl"
AllFuns   == Funs \cup {ImplFun}

Range(s) == {s[i] : i \in 1..Len(s)}

Min(a, b) == IF a < b THEN a ELSE b

-----------------------------------------------------------------------------
(* Tasks of the supervisor *)

NoTask == [st |-> "none", dest |-> NoJid, seed |-> 0, ret |-> 0, exc |-> FALSE, result |-> 0]

\* a spawn that passes the bare peer address instead of the locked one
NewTaskBare(dest, item) ==
    [st |-> "new", dest |-> NoJid, seed |-> item, ret |-> 0, exc |-> FALSE, result |-> 0]

\* asyncio.ensure_future(self._wrapper(fun(self.__locked_to, item)))
NewTask(dest, item) ==
    [st |-> "new", dest |-> dest, seed |-> item, ret |-> 0, exc |-> FALSE, result |-> 0]

\* a task that is in the dict and not done
Live(t) == t.st \in {"new", "run", "pause_ok", "pause_err"}

\* The value the wrapped task ends with when the worker function returned v:
\* `await coro` discards v and the coroutine falls off its end after the pause.
WrapperResult(v) == 0

\* _wrapper, entered with the outcome of `await coro`.
WrapperAfter(t, outcome, v) ==
    CASE outcome = "cancelled" -> [t EXCEPT !.st = "done", !.result = 0]
      [] outcome = "raised"    -> [t EXCEPT !.st = "pause_err"]
      [] OTHER                 -> [t EXCEPT !.st = "pause_ok", !.ret = v]

\* _wrapper after its asyncio.sleep(1): re-raise, or fall off the end.
WrapperPauseDone(t) ==
    IF t.st = "pause_err"
    THEN [t EXCEPT !.st = "done", !.exc = TRUE]
    ELSE [t EXCEPT !.st = "done", !.result = WrapperResult(t.ret)]

\* the `item` _manage_tasks computes for a fun from its previous task
SeedOf(t) ==
    IF t.st = "none" THEN 0
    ELSE IF t.exc THEN 0
    ELSE t.result

\* asyncio.Event.set(): the value, and the waiter of the pending wait() future
EventSet(ef) == IF ef = "waiting" THEN "done" ELSE ef

-----------------------------------------------------------------------------
(* SenderService: presence handlers *)

\* PresenceClient.on_available for a resource of peer_jid -> _on_available
OnAvailable(r) ==
    /\ r \notin present
    /\ present' = present \cup {r}
    /\ locked_to' = r
    /\ lock_event' = TRUE
    /\ ev_fut' = EventSet(ev_fut)
    /\ fresh' = TRUE
    /\ UNCHANGED <<sup, task_funs, tasks, shutdown_result>>
    /\ UNCHANGED <<queueVars, implVars, compVars, extVars>>

\* PresenceClient.on_unavailable for a resource of peer_jid -> _on_unavailable.
\* The resource to relock to is the first key of the presence dict: any survivor.
OnUnavailable(r) ==
    /\ r \in present
    /\ present' = present \ {r}
    /\ IF r # locked_to
       THEN UNCHANGED <<locked_to, lock_event, ev_fut, fresh>>
       ELSE IF present' = {}
            THEN /\ locked_to' = NoJid
                 /\ lock_event' = FALSE
                 /\ UNCHANGED <<ev_fut, fresh>>
            ELSE \E n \in present' :
                 /\ locked_to' = n
                 /\ lock_event' = TRUE
                 /\ ev_fut' = EventSet(ev_fut)
                 /\ fresh' = TRUE
    /\ UNCHANGED <<sup, task_funs, tasks, shutdown_result>>
    /\ UNCHANGED <<queueVars, implVars, compVars, extVars>>

\* PresenceClient.on_bare_unavailable of peer_jid (its last resource is gone)
\* -> _on_bare_unavailable
OnBareUnavailable ==
    /\ present = {}
    /\ locked_to' = NoJid
    /\ lock_event' = FALSE
    /\ UNCHANGED <<present, ev_fut>>
    /\ UNCHANGED supVars
    /\ UNCHANGED <<queueVars, implVars, compVars, extVars>>

\* add_task(coro_fun)
AddTask(f) ==
    /\ f \notin Range(task_funs)
    /\ task_funs' = Append(task_funs, f)
    /\ lock_event' = TRUE
    /\ ev_fut' = EventSet(ev_fut)
    /\ fresh' = TRUE
    /\ UNCHANGED <<present, locked_to, sup, tasks, shutdown_result>>
    /\ UNCHANGED <<queueVars, implVars, compVars, extVars>>

-----------------------------------------------------------------------------
(* SenderService: the supervisor *)

\* first step of the task created for __lock_event.wait(): asyncio.Event.wait()
EvFutStep ==
    /\ sup = "waiting"
    /\ ev_fut = "created"
    /\ ev_fut' = IF lock_event THEN "done" ELSE "waiting"
    /\ UNCHANGED <<present, locked_to, lock_event>>
    /\ UNCHANGED supVars
    /\ UNCHANGED <<queueVars, implVars, compVars, extVars>>

\* asyncio.wait(list(tasks.values()) + [ev_fut], return_when=FIRST_COMPLETED)
\* returns: one of the awaited futures is done.
WaitReturns ==
    \/ ev_fut = "done"
    \/ \E f \in AllFuns : tasks[f].st = "done"

\* a spawn loop that does not look at the lock
RespawnUnlocked(ts, funs, jid) ==
    [f \in AllFuns |->
        IF f \in Range(funs) /\ ts[f].st \in {"none", "done"}
        THEN NewTask(jid, SeedOf(ts[f]))
        ELSE ts[f]]

\* a spawn loop that does not look at task.done()
RespawnLive(ts, funs, jid) ==
    IF jid = NoJid
    THEN ts
    ELSE [f \in AllFuns |->
            IF f \in Range(funs) THEN NewTask(jid, SeedOf(ts[f])) ELSE ts[f]]

\* the tasks dict after the (re-)spawn loop of _manage_tasks
Respawn(ts, funs, jid) ==
    IF jid = NoJid
    THEN ts
    ELSE [f \in AllFuns |->
            IF f \in Range(funs) /\ ts[f].st \in {"none", "done"}
            THEN NewTask(jid, SeedOf(ts[f]))
            ELSE ts[f]]

\* One iteration of `while True: await self._manage_tasks(tasks)`: from the
\* return of asyncio.wait (or the first step of the coroutine) to the next
\* asyncio.wait.  The task of ev_fut runs before the loop can resume the
\* supervisor, so the supervisor is never resumed with ev_fut still unstarted.
ManageTasks ==
    /\ \/ sup = "init"
       \/ sup = "waiting" /\ ev_fut # "created" /\ WaitReturns
    /\ sup' = "waiting"
    /\ lock_event' = FALSE
    /\ tasks' = Respawn(tasks, task_funs, locked_to)
    /\ ev_fut' = "created"
    /\ fresh' = FALSE
    /\ UNCHANGED <<present, locked_to, task_funs, shutdown_result>>
    /\ UNCHANGED <<queueVars, implVars, compVars, extVars>>

\* the `finally` block of _supervisor: `for task in tasks` walks the keys of
\* the dict, which are the worker functions, and a function has no cancel().
SupervisorFinally(ts) ==
    IF \E f \in AllFuns : ts[f].st # "none"
    THEN [state |-> "crashed", result |-> "error", tasks |-> ts]
    ELSE [state |-> "cancelled", result |-> "ok", tasks |-> ts]

\* _shutdown(): cancel the supervisor task and await it
Shutdown ==
    /\ sup \in {"init", "waiting"}
    /\ LET fin == SupervisorFinally(tasks) IN
        /\ sup' = fin.state
        /\ shutdown_result' = fin.result
        /\ tasks' = fin.tasks
    /\ UNCHANGED <<task_funs, fresh>>
    /\ UNCHANGED <<presVars, queueVars, implVars, compVars, extVars>>

\* _wrapper: the asyncio.sleep(1) after the worker function ended is over
PauseDone(f) ==
    /\ tasks[f].st \in {"pause_ok", "pause_err"}
    /\ tasks' = [tasks EXCEPT ![f] = WrapperPauseDone(@)]
    /\ fresh' = TRUE
    /\ UNCHANGED <<sup, task_funs, shutdown_result>>
    /\ UNCHANGED <<presVars, queueVars, implVars, compVars, extVars>>

-----------------------------------------------------------------------------
(* A generic worker function fun(dest, item) registered through add_task *)

\* the task created for the wrapped coroutine runs for the first time
WorkerStart(f) ==
    /\ f \in Funs
    /\ tasks[f].st = "new"
    /\ tasks' = [tasks EXCEPT ![f].st = "run"]
    /\ UNCHANGED <<sup, task_funs, shutdown_result, fresh>>
    /\ UNCHANGED <<presVars, queueVars, implVars, compVars, extVars>>

\* `await coro` in _wrapper: the worker function returns v (0 for None)
WorkerReturns(f, v) ==
    /\ f \in Funs
    /\ tasks[f].st = "run"
    /\ tasks' = [tasks EXCEPT ![f] = WrapperAfter(@, "returned", v)]
    /\ UNCHANGED <<sup, task_funs, shutdown_result, fresh>>
    /\ UNCHANGED <<presVars, queueVars, implVars, compVars, extVars>>

\* `await coro` in _wrapper: the worker function raises (not a cancellation)
WorkerRaises(f) ==
    /\ f \in Funs
    /\ tasks[f].st = "run"
    /\ tasks' = [tasks EXCEPT ![f] = WrapperAfter(@, "raised", 0)]
    /\ UNCHANGED <<sup, task_funs, shutdown_result, fresh>>
    /\ UNCHANGED <<presVars, queueVars, implVars, compVars, extVars>>

-----------------------------------------------------------------------------
(* SubmitterServiceMixin: the delivery queue *)

\* asyncio.Queue.full()
Full(q, cap) == cap > 0 /\ Len(q) >= cap

\* an enqueue that gives up the incoming item when the queue is full
EnqueueDroppingNew(q, cap, item) ==
    IF ~Full(q, cap)
    THEN [queue |-> Append(q, item), drop |-> <<>>]
    ELSE [queue |-> q, drop |-> <<item>>]

\* _enqueue_dropping_old(item) on a queue holding q: the items left in the
\* queue and the items handed to _drop_item
EnqueueDroppingOld(q, cap, item) ==
    IF ~Full(q, cap)
    THEN [queue |-> Append(q, item), drop |-> <<>>]
    ELSE LET to_drop == Head(q)
             rest    == Tail(q)
         IN  [queue |-> Append(rest, item), drop |-> <<to_drop>>]

\* a setter that slices from the other end: it keeps the oldest items
ResizeQueueKeepOldest(all_items, value) ==
    IF value < Len(all_items)
    THEN [queue |-> SubSeq(all_items, 1, value),
          drop  |-> SubSeq(all_items, value + 1, Len(all_items))]
    ELSE [queue |-> all_items, drop |-> <<>>]

\* the queue_size setter called with value on a queue holding all_items
ResizeQueue(all_items, value) ==
    IF value < Len(all_items)
    THEN LET cut == Len(all_items) - value
         IN  [queue |-> SubSeq(all_items, cut + 1, Len(all_items)),
              drop  |-> SubSeq(all_items, 1, cut)]
    ELSE [queue |-> all_items, drop |-> <<>>]

RECURSIVE SeqToBag(_)
SeqToBag(s) == IF s = <<>> THEN EmptyBag ELSE SetToBag({Head(s)}) (+) SeqToBag(Tail(s))

\* a drop hook that closes each handle a second time
DropItemsTwice(bag, items) == bag (+) SeqToBag(items) (+) SeqToBag(items)

\* StreamSubmitterService._drop_item for each of items: handle.close()
DropItems(bag, items) == bag (+) SeqToBag(items)

\* enqueue_batch / the hand-over of a compressed block: the next item arrives
EnqueueUpTo(limit) ==
    /\ next_id < limit
    /\ LET r == EnqueueDroppingOld(queue, maxsize, next_id + 1) IN
        /\ queue' = r.queue
        /\ dropped' = dropped \o r.drop
        /\ closed' = DropItems(closed, r.drop)
    /\ next_id' = next_id + 1
    /\ UNCHANGED <<maxsize, qgen, resize_dropped>>
    /\ UNCHANGED <<presVars, supVars, implVars, compVars, extVars>>

Enqueue == EnqueueUpTo(MaxItems)

EnqueueFill == EnqueueUpTo(FillItems)

\* queue_size = value: the items move to a new asyncio.Queue
SetQueueSize(value) ==
    /\ qgen < MaxResizes
    /\ LET r == ResizeQueue(queue, value) IN
        /\ queue' = r.queue
        /\ dropped' = dropped \o r.drop
        /\ closed' = DropItems(closed, r.drop)
        /\ resize_dropped' = resize_dropped + Len(r.drop)
    /\ maxsize' = value
    /\ qgen' = qgen + 1
    /\ UNCHANGED next_id
    /\ UNCHANGED <<presVars, supVars, implVars, compVars, extVars>>

-----------------------------------------------------------------------------
(* SubmitterServiceMixin._impl and StreamSubmitterService._submit_single *)

\* `item = await self._queue.get()` followed by the start of _submit_single:
\* taken at once when the queue holds an item, suspended in get() otherwise
ImplNext(cached_item) ==
    IF cached_item # 0
    THEN /\ impl_pc' = "send"
         /\ impl_item' = cached_item
         /\ UNCHANGED <<queue, impl_q>>
    ELSE IF queue # <<>>
         THEN /\ impl_pc' = "send"
              /\ impl_item' = Head(queue)
              /\ queue' = Tail(queue)
              /\ UNCHANGED impl_q
         ELSE /\ impl_pc' = "get"
              /\ impl_item' = 0
              /\ impl_q' = qgen
              /\ UNCHANGED queue

\* first step of the task wrapping _impl(dest, cached_item)
ImplStart ==
    /\ tasks[ImplFun].st = "new"
    /\ tasks' = [tasks EXCEPT ![ImplFun].st = "run"]
    /\ ImplNext(tasks[ImplFun].seed)
    /\ UNCHANGED <<maxsize, qgen, dropped, closed, next_id, resize_dropped, delivered>>
    /\ UNCHANGED <<sup, task_funs, shutdown_result, fresh>>
    /\ UNCHANGED <<presVars, compVars, extVars>>

\* get() is resumed by a put on the queue object it waits on
ImplGet ==
    /\ impl_pc = "get"
    /\ impl_q = qgen
    /\ queue # <<>>
    /\ ImplNext(0)
    /\ UNCHANGED <<maxsize, qgen, dropped, closed, next_id, resize_dropped, delivered>>
    /\ UNCHANGED <<presVars, supVars, compVars, extVars>>

\* client.send(iq) returned: _submit_single closes the handle, _impl loops
SendOk ==
    /\ impl_pc = "send"
    /\ closed' = DropItems(closed, <<impl_item>>)
    /\ delivered' = Append(delivered, impl_item)
    /\ ImplNext(0)
    /\ UNCHANGED <<maxsize, qgen, dropped, next_id, resize_dropped>>
    /\ UNCHANGED <<presVars, supVars, compVars, extVars>>

\* client.send(iq) raised an XMPPError: _submit_single re-raises it and _impl
\* sleeps for the resubmit delay
SendTransient ==
    /\ impl_pc = "send"
    /\ impl_pc' = "resub"
    /\ UNCHANGED <<impl_item, impl_q, delivered>>
    /\ UNCHANGED <<presVars, supVars, queueVars, compVars, extVars>>

\* the resubmit delay is over: `return item`
ResubmitReturn ==
    /\ impl_pc = "resub"
    /\ tasks' = [tasks EXCEPT ![ImplFun] = WrapperAfter(@, "returned", impl_item)]
    /\ impl_pc' = "idle"
    /\ impl_item' = 0
    /\ UNCHANGED <<impl_q, delivered>>
    /\ UNCHANGED <<sup, task_funs, shutdown_result, fresh>>
    /\ UNCHANGED <<presVars, queueVars, compVars, extVars>>

\* the handle of item after _submit_single ended with an exception that is
\* not an XMPPError: the `else` branch that closes the handle is not run
SubmitSingleFailed(bag, item) == bag

\* _submit_single raised something that is not an XMPPError: it leaves _impl
SendFatal ==
    /\ impl_pc = "send"
    /\ closed' = SubmitSingleFailed(closed, impl_item)
    /\ tasks' = [tasks EXCEPT ![ImplFun] = WrapperAfter(@, "raised", 0)]
    /\ impl_pc' = "idle"
    /\ impl_item' = 0
    /\ UNCHANGED <<impl_q, delivered>>
    /\ UNCHANGED <<queue, maxsize, qgen, dropped, next_id, resize_dropped>>
    /\ UNCHANGED <<sup, task_funs, shutdown_result, fresh>>
    /\ UNCHANGED <<presVars, compVars, extVars>>

-----------------------------------------------------------------------------
(* StreamSubmitterService: the compression stage *)

\* submit_block(block): put_nowait on the unbounded front queue.  ok tells
\* whether _preprocess_item will succeed on the data of this block.
SubmitBlock(ok) ==
    /\ Len(block_ok) < MaxBlocks
    /\ front_queue' = Append(front_queue, Len(block_ok) + 1)
    /\ block_ok' = Append(block_ok, ok)
    /\ UNCHANGED <<comp_task, comp_item, pushed, comp_cancelled>>
    /\ UNCHANGED <<presVars, supVars, queueVars, implVars, extVars>>

\* a get() that hands out the block submitted last
CompressorNextNewest ==
    IF front_queue # <<>>
    THEN /\ comp_task' = "exec"
         /\ comp_item' = front_queue[Len(front_queue)]
         /\ front_queue' = SubSeq(front_queue, 1, Len(front_queue) - 1)
    ELSE /\ comp_task' = "get"
         /\ comp_item' = 0
         /\ UNCHANGED front_queue

\* `item = await self._front_queue.get()` followed by run_in_executor: taken
\* at once when the front queue holds a block, suspended in get() otherwise
CompressorNext ==
    IF front_queue # <<>>
    THEN /\ comp_task' = "exec"
         /\ comp_item' = Head(front_queue)
         /\ front_queue' = Tail(front_queue)
    ELSE /\ comp_task' = "get"
         /\ comp_item' = 0
         /\ UNCHANGED front_queue

\* first step of the task running _compressor_task
CompressorStart ==
    /\ comp_task = "new"
    /\ CompressorNext
    /\ UNCHANGED <<block_ok, pushed, comp_cancelled>>
    /\ UNCHANGED <<presVars, supVars, queueVars, implVars, extVars>>

\* get() on the front queue is resumed by submit_block
CompressorGet ==
    /\ comp_task = "get"
    /\ front_queue # <<>>
    /\ CompressorNext
    /\ UNCHANGED <<block_ok, pushed, comp_cancelled>>
    /\ UNCHANGED <<presVars, supVars, queueVars, implVars, extVars>>

\* the executor returned the compressed item: _enqueue_dropping_old, loop
CompressOk ==
    /\ comp_task = "exec"
    /\ block_ok[comp_item]
    /\ LET r == EnqueueDroppingOld(queue, maxsize, comp_item) IN
        /\ queue' = r.queue
        /\ dropped' = dropped \o r.drop
        /\ closed' = DropItems(closed, r.drop)
    /\ next_id' = next_id + 1
    /\ pushed' = Append(pushed, comp_item)
    /\ CompressorNext
    /\ UNCHANGED <<maxsize, qgen, resize_dropped, block_ok, comp_cancelled>>
    /\ UNCHANGED <<presVars, supVars, implVars, extVars>>

\* _preprocess_item raised in the executor: the block is dropped and the
\* exception leaves _compressor_task
CompressFail ==
    /\ comp_task = "exec"
    /\ ~block_ok[comp_item]
    /\ closed' = DropItems(closed, <<comp_item>>)
    /\ comp_task' = "crashed"
    /\ comp_item' = 0
    /\ UNCHANGED <<front_queue, block_ok, pushed, comp_cancelled>>
    /\ UNCHANGED <<queue, maxsize, qgen, dropped, next_id, resize_dropped>>
    /\ UNCHANGED <<presVars, supVars, implVars, extVars>>

\* a done callback that never relaunches the task
CompressorTaskDoneNoRelaunch(state) == "ended"

\* _handle_compressor_task_done(task): the state of self.__task afterwards
CompressorTaskDone(state) ==
    IF state = "cancelled" THEN "ended" ELSE "new"

\* the done callback of the compressor task runs
HandleCompressorTaskDone ==
    /\ comp_task \in {"crashed", "cancelled", "returned"}
    /\ comp_task' = CompressorTaskDone(comp_task)
    /\ UNCHANGED <<front_queue, comp_item, block_ok, pushed, comp_cancelled>>
    /\ UNCHANGED <<presVars, supVars, queueVars, implVars, extVars>>

\* what cancel() makes of the compressor task: before its first step and in
\* get() the CancelledError ends the task as cancelled; in run_in_executor
\* it is caught, `break` leaves the loop and the coroutine returns
CompressorCancelled(state) ==
    IF state \in {"new", "get"} THEN "cancelled"
    ELSE IF state = "exec" THEN "returned"
    ELSE state

\* cancel() is called on the compressor task and the loop delivers it
CompressorCancel ==
    /\ ~comp_cancelled
    /\ comp_task \in {"new", "get", "exec"}
    /\ comp_task' = CompressorCancelled(comp_task)
    /\ comp_item' = 0
    /\ comp_cancelled' = TRUE
    /\ UNCHANGED <<front_queue, block_ok, pushed>>
    /\ UNCHANGED <<presVars, supVars, queueVars, implVars, extVars>>

-----------------------------------------------------------------------------
(* hintlib.utils.ExponentialBackOff *)

\* ExponentialBackOff.__init__(base=2, start=1, max_=120), as RestartingTask builds it
BackoffBase  == 2
BackoffStart == 1
BackoffMax   == 120

BackoffNextUncapped(current, base, max_) ==
    [val |-> current, current |-> current * base, failing |-> TRUE]

BackoffNextNoGrowth(current, base, max_) ==
    [val |-> current, current |-> current, failing |-> TRUE]

\* ExponentialBackOff.__next__: the value returned and the state left behind
BackoffNext(current, base, max_) ==
    [val |-> current, current |-> Min(current * base, max_), failing |-> TRUE]

\* ExponentialBackOff.reset: _current goes back to start, _is_failing is not touched
BackoffReset(start, failing) == [current |-> start, failing |-> failing]

-----------------------------------------------------------------------------
(* RestartingTask *)

RtDone == {"returned", "crashed", "cancelled"}

\* asyncio.Task.cancel(): a request on a pending task, nothing on a finished one
CancelTask(task) == IF task \in {"running", "cancelling"} THEN "cancelling" ELSE task

NeedsTaskWhileRunning(task, should_run) == should_run

NeedsTaskWhileStopped(task, should_run) == task = "none"

\* _ensure_state: the condition of its first branch
NeedsTask(task, should_run) == task = "none" /\ should_run

\* _ensure_state: the task slot it leaves behind
EnsureState(task, should_run) ==
    IF NeedsTask(task, should_run) THEN "running"
    ELSE IF task # "none" /\ ~should_run THEN CancelTask(task)
    ELSE task

\* one run of _ensure_state entered from `who`, with the history it leaves
RunEnsureState(who, should_run, due) ==
    /\ rt_task' = EnsureState(rt_task, should_run)
    /\ rt_nlive' = IF NeedsTask(rt_task, should_run) THEN rt_nlive + 1 ELSE rt_nlive
    /\ rt_origin' = IF NeedsTask(rt_task, should_run) THEN who ELSE rt_origin
    /\ rt_due' = IF NeedsTask(rt_task, should_run) THEN -1 ELSE due

\* The loop runs its ready callbacks in the order they were scheduled: a
\* pending call_soon(_ensure_state) runs before any step of a task created
\* after it and before any call_later callback that is not due yet.
RtLoopIdle == rt_soon = 0

\* start()
RtStart ==
    /\ rt_should_run' = TRUE
    /\ LET b == BackoffReset(BackoffStart, rt_failing)
       IN  rt_current' = b.current /\ rt_failing' = b.failing
    /\ RunEnsureState("start", TRUE, -1)
    /\ rt_crashes' = 0
    /\ rt_armed' = TRUE
    /\ rt_retd' = FALSE
    /\ UNCHANGED <<rt_soon, rt_timers, rt_waiter>>
    /\ rt_forced' = FALSE
    /\ UNCHANGED <<presVars, supVars, queueVars, implVars, compVars, cacheVars, peerVars,
                   backoffVars>>

\* stop()
RtStop ==
    /\ rt_should_run' = FALSE
    /\ RunEnsureState("stop", FALSE, -1)
    /\ rt_crashes' = 0
    /\ rt_armed' = FALSE
    /\ UNCHANGED <<rt_current, rt_failing, rt_soon, rt_timers, rt_waiter, rt_retd>>
    /\ rt_forced' = FALSE
    /\ UNCHANGED <<presVars, supVars, queueVars, implVars, compVars, cacheVars, peerVars,
                   backoffVars>>

\* restart(): start() when not wanted, else reset, then create or cancel
RtRestart ==
    /\ rt_should_run' = TRUE
    /\ LET b == BackoffReset(BackoffStart, rt_failing)
       IN  rt_current' = b.current /\ rt_failing' = b.failing
    /\ IF ~rt_should_run \/ rt_task = "none"
       THEN RunEnsureState("restart", TRUE, -1)
       ELSE /\ rt_task' = CancelTask(rt_task)
            /\ rt_due' = -1
            /\ UNCHANGED <<rt_nlive, rt_origin>>
    /\ rt_crashes' = 0
    /\ rt_armed' = TRUE
    /\ rt_retd' = FALSE
    /\ UNCHANGED <<rt_soon, rt_timers, rt_waiter>>
    /\ rt_forced' = (rt_should_run /\ rt_task # "none")
    /\ UNCHANGED <<presVars, supVars, queueVars, implVars, compVars, cacheVars, peerVars,
                   backoffVars>>

TaskDoneKeepRunning(outcome, should_run, current) ==
    IF outcome = "crashed"
    THEN LET b == BackoffNext(current, BackoffBase, BackoffMax)
         IN  [should_run |-> should_run, soon |-> 0, delay |-> b.val, current |-> b.current]
    ELSE [should_run |-> should_run, soon |-> IF outcome = "cancelled" /\ should_run THEN 1 ELSE 0,
          delay |-> -1, current |-> current]

\* _task_done: what the three outcomes of task.result() leave behind
\* (soon: call_soon(_ensure_state) scheduled; delay: call_later(delay, ...) or -1)
TaskDone(outcome, should_run, current) ==
    IF outcome = "cancelled"
    THEN [should_run |-> should_run, soon |-> IF should_run THEN 1 ELSE 0,
          delay |-> -1, current |-> current]
    ELSE IF outcome = "crashed"
    THEN LET b == BackoffNext(current, BackoffBase, BackoffMax)
         IN  [should_run |-> should_run, soon |-> 0, delay |-> b.val, current |-> b.current]
    ELSE [should_run |-> FALSE, soon |-> 0, delay |-> -1, current |-> current]

\* `await self._task` inside try/except Exception: CancelledError is an Exception
\* up to Python 3.7 and a BaseException from Python 3.8 on
AwaitOutcome(outcome, cancelled_is_exception) ==
    IF outcome = "cancelled" /\ ~cancelled_is_exception THEN "raised" ELSE "returned"

\* the done callback of the task, followed by the wake-up of a suspended
\* wait_for_termination (the next callback of the same task)
RtTaskDone ==
    /\ RtLoopIdle
    /\ rt_task \in RtDone
    /\ LET d == TaskDone(rt_task, rt_should_run, rt_current)
       IN  /\ rt_should_run' = d.should_run
           /\ rt_current' = d.current
           /\ rt_soon' = rt_soon + d.soon
           /\ rt_timers' = IF d.delay >= 0 THEN Append(rt_timers, d.delay) ELSE rt_timers
           /\ rt_due' = IF d.delay >= 0 THEN d.delay ELSE rt_due
           /\ rt_crashes' = IF d.delay >= 0 THEN rt_crashes + 1 ELSE rt_crashes
           /\ rt_failing' = (rt_failing \/ d.delay >= 0)
    /\ rt_task' = "none"
    /\ \E cancelled_is_exception \in BOOLEAN :
           rt_waiter' = IF rt_waiter = "waiting"
                        THEN AwaitOutcome(rt_task, cancelled_is_exception)
                        ELSE rt_waiter
    /\ UNCHANGED <<rt_nlive, rt_origin, rt_armed, rt_retd>>
    /\ UNCHANGED rt_forced
    /\ UNCHANGED <<presVars, supVars, queueVars, implVars, compVars, cacheVars, peerVars,
                   backoffVars>>

\* the worker coroutine returns
RtWorkerReturns ==
    /\ RtLoopIdle
    /\ rt_task = "running"
    /\ rt_task' = "returned"
    /\ rt_nlive' = rt_nlive - 1
    /\ rt_retd' = TRUE
    /\ UNCHANGED <<rt_should_run, rt_current, rt_failing, rt_soon, rt_timers, rt_waiter,
                   rt_crashes, rt_due, rt_origin, rt_armed>>
    /\ UNCHANGED rt_forced
    /\ UNCHANGED <<presVars, supVars, queueVars, implVars, compVars, cacheVars, peerVars,
                   backoffVars>>

\* the worker coroutine raises an exception
RtWorkerRaises ==
    /\ RtLoopIdle
    /\ rt_task = "running"
    /\ rt_crashes < MaxCrashes
    /\ Len(rt_timers) < MaxTimers
    /\ rt_task' = "crashed"
    /\ rt_nlive' = rt_nlive - 1
    /\ UNCHANGED <<rt_should_run, rt_current, rt_failing, rt_soon, rt_timers, rt_waiter,
                   rt_crashes, rt_due, rt_origin, rt_armed, rt_retd>>
    /\ UNCHANGED rt_forced
    /\ UNCHANGED <<presVars, supVars, queueVars, implVars, compVars, cacheVars, peerVars,
                   backoffVars>>

\* the worker coroutine receives the CancelledError of a cancel() and ends with it
RtWorkerCancelled ==
    /\ RtLoopIdle
    /\ rt_task = "cancelling"
    /\ rt_task' = "cancelled"
    /\ rt_nlive' = rt_nlive - 1
    /\ UNCHANGED <<rt_should_run, rt_current, rt_failing, rt_soon, rt_timers, rt_waiter,
                   rt_crashes, rt_due, rt_origin, rt_armed, rt_retd>>
    /\ UNCHANGED rt_forced
    /\ UNCHANGED <<presVars, supVars, queueVars, implVars, compVars, cacheVars, peerVars,
                   backoffVars>>

\* a callback of loop.call_soon(self._ensure_state) runs
RtSoonFires ==
    /\ rt_soon > 0
    /\ rt_soon' = rt_soon - 1
    /\ RunEnsureState("soon", rt_should_run, rt_due)
    /\ UNCHANGED <<rt_should_run, rt_current, rt_failing, rt_timers, rt_waiter,
                   rt_crashes, rt_armed, rt_retd>>
    /\ rt_forced' = (rt_forced /\ ~NeedsTask(rt_task, rt_should_run))
    /\ UNCHANGED <<presVars, supVars, queueVars, implVars, compVars, cacheVars, peerVars,
                   backoffVars>>

RemoveAt(s, i) == SubSeq(s, 1, i - 1) \o SubSeq(s, i + 1, Len(s))

\* a callback of loop.call_later(delay, self._ensure_state) runs, its delay over
RtTimerFires ==
    /\ \E i \in 1..Len(rt_timers) :
           /\ rt_timers[i] = 0
           /\ rt_timers' = RemoveAt(rt_timers, i)
    /\ RunEnsureState("timer", rt_should_run, rt_due)
    /\ UNCHANGED <<rt_should_run, rt_current, rt_failing, rt_soon, rt_waiter,
                   rt_crashes, rt_armed, rt_retd>>
    /\ rt_forced' = (rt_forced /\ ~NeedsTask(rt_task, rt_should_run))
    /\ UNCHANGED <<presVars, supVars, queueVars, implVars, compVars, cacheVars, peerVars,
                   backoffVars>>

\* the loop sleeps until the next pending call_later is due (nothing is ready)
RtTick ==
    /\ RtLoopIdle
    /\ rt_task \notin RtDone
    /\ \E i \in 1..Len(rt_timers) : rt_timers[i] > 0
    /\ LET d == CHOOSE x \in {rt_timers[i] : i \in 1..Len(rt_timers)} \ {0} :
                    \A y \in {rt_timers[i] : i \in 1..Len(rt_timers)} \ {0} : x <= y
       IN  /\ rt_timers' = [i \in 1..Len(rt_timers) |->
                               IF rt_timers[i] > d THEN rt_timers[i] - d ELSE 0]
           /\ rt_due' = IF rt_due > d THEN rt_due - d ELSE IF rt_due > 0 THEN 0 ELSE rt_due
    /\ UNCHANGED <<rt_should_run, rt_task, rt_current, rt_failing, rt_soon, rt_waiter,
                   rt_nlive, rt_crashes, rt_origin, rt_armed, rt_retd>>
    /\ UNCHANGED rt_forced
    /\ UNCHANGED <<presVars, supVars, queueVars, implVars, compVars, cacheVars, peerVars,
                   backoffVars>>

\* wait_for_termination() is called: stop(), then return at once or await the task
RtWaitForTermination ==
    /\ rt_waiter # "waiting"
    /\ rt_should_run' = FALSE
    /\ RunEnsureState("stop", FALSE, -1)
    /\ \E cancelled_is_exception \in BOOLEAN :
           rt_waiter' = IF rt_task = "none" THEN "returned"
                        ELSE IF rt_task \in RtDone
                        THEN AwaitOutcome(rt_task, cancelled_is_exception)
                        ELSE "waiting"
    /\ rt_crashes' = 0
    /\ rt_armed' = FALSE
    /\ UNCHANGED <<rt_current, rt_failing, rt_soon, rt_timers, rt_retd>>
    /\ rt_forced' = FALSE
    /\ UNCHANGED <<presVars, supVars, queueVars, implVars, compVars, cacheVars, peerVars,
                   backoffVars>>

\* RestartingTask.__init__
InitTask ==
    /\ rt_should_run = FALSE
    /\ rt_task = "none"
    /\ rt_current = BackoffStart
    /\ rt_failing = FALSE
    /\ rt_soon = 0
    /\ rt_timers = <<>>
    /\ rt_waiter = "idle"
    /\ rt_nlive = 0
    /\ rt_crashes = 0
    /\ rt_due = -1
    /\ rt_origin = "none"
    /\ rt_armed = FALSE
    /\ rt_retd = FALSE
    /\ rt_forced = FALSE

-----------------------------------------------------------------------------
(* hintlib.cache.AdvancedRequester *)

\* AdvancedRequester.__init__: backoff_start=15 s, backoff_base=2, backoff_max=120 s
CacheBackoffStart == 15
CacheBackoffBase  == 2
CacheBackoffMax   == 120

\* the keyword items requests are made with, and the orders they are passed in
ItemA  == <<"lat", 1>>
ItemB  == <<"lon", 1>>
Kwargs == {<<ItemA, ItemB>>, <<ItemB, ItemA>>}
\* requests for another place, which have another cache key
ItemC  == <<"lat", 2>>
AllKwargs == Kwargs \cup {<<ItemC, ItemB>>}
Params == {Range(kw) : kw \in AllKwargs}

\* two callers of request(), whose calls may overlap
Slots == {1, 2}

\* None where a CacheEntry is expected; a CacheEntry is its data and its expires
NoEntry == [data |-> 0, expires |-> -1]
NoRes   == [kind |-> "none", val |-> 0]

DeriveCacheKeyOrdered(kwargs) == kwargs

\* _derive_cache_key: frozenset(kwargs.items())
DeriveCacheKey(kwargs) == Range(kwargs)

\* self._cache[cache_key] with KeyError -> None
CacheGet(cache, key) == IF key \in DOMAIN cache THEN cache[key] ELSE NoEntry

\* self._cache[cache_key] = cache_entry
CachePut(cache, key, entry) ==
    [k \in DOMAIN cache \cup {key} |-> IF k = key THEN entry ELSE cache[k]]

\* request: the test that makes a cache hit
IsFresh(entry, now) == entry # NoEntry /\ entry.expires # -1 /\ entry.expires >= now

\* _execute_request: the test of the back-off gate
GateClosed(failing, until, now) == failing /\ until > now

\* _get_backing_off_result: None by default, a subclass may hand back the old entry
GetBackingOffResult(serve_stale, expired_cache_entry) ==
    IF serve_stale THEN expired_cache_entry ELSE NoEntry

RequestFailedKeepWindow(back_off, fallback, now, current, failing, until) ==
    IF back_off /\ fallback = NoEntry
    THEN LET b == BackoffNext(current, CacheBackoffBase, CacheBackoffMax)
         IN  [until |-> now + b.val, current |-> b.current, failing |-> b.failing]
    ELSE [until |-> until, current |-> current, failing |-> failing]

RequestFailedAnyway(back_off, fallback, now, current, failing, until) ==
    LET b == BackoffNext(current, CacheBackoffBase, CacheBackoffMax)
    IN  [until |-> now + b.val, current |-> b.current, failing |-> b.failing]

\* _execute_request, except RequestError: the back-off state it leaves behind
RequestFailed(back_off, fallback, now, current, failing, until) ==
    IF back_off
    THEN LET b == BackoffNext(current, CacheBackoffBase, CacheBackoffMax)
         IN  [until |-> now + b.val, current |-> b.current, failing |-> b.failing]
    ELSE [until |-> until, current |-> current, failing |-> failing]

\* the history kept of an entry stored by a request made with `kw`
Stored(kw, entry) == [kw |-> kw, data |-> entry.data, expires |-> entry.expires]

\* a caller that is in no request() call
IdleReq == [pc |-> "idle", kw |-> <<>>, now |-> 0, expired |-> NoEntry, id |-> 0]

\* the history kept of the request() call that ended last
Done(kw, via, back_off, kind, val) ==
    [kw |-> kw, via |-> via, bo |-> back_off, res |-> [kind |-> kind, val |-> val]]

\* request() returns entry.data after storing the entry under the key of `kw`
ServeAndStore(kw, entry, via, back_off) ==
    /\ c_cache' = CachePut(c_cache, DeriveCacheKey(kw), entry)
    /\ c_prev' = [c_prev EXCEPT ![Range(kw)] = [data |-> c_last[Range(kw)].data,
                                              expires |-> c_last[Range(kw)].expires]]
    /\ c_last' = [c_last EXCEPT ![Range(kw)] = Stored(kw, entry)]
    /\ c_done' = Done(kw, via, back_off, "data", entry.data)

FinishForgetting(kw, via, back_off, kind, val) ==
    /\ c_done' = Done(kw, via, back_off, kind, val)
    /\ c_cache' = [k \in DOMAIN c_cache \ {DeriveCacheKey(kw)} |-> c_cache[k]]
    /\ UNCHANGED <<c_prev, c_last>>

\* request() ends without touching the cache: a cache hit or an exception
Finish(kw, via, back_off, kind, val) ==
    /\ c_done' = Done(kw, via, back_off, kind, val)
    /\ UNCHANGED <<c_cache, c_prev, c_last>>

\* request(dont_cache=..., **kwargs) up to its first suspension or its end;
\* callers take the first free slot; no more than `limit` backend calls are made
RequestUpTo(limit, s, kw, dont_cache, serve_stale) ==
    /\ c_req[s].pc = "idle"
    /\ \A t \in Slots : t < s => c_req[t].pc = "fetching"
    /\ LET entry == CacheGet(c_cache, DeriveCacheKey(kw))
       IN  IF dont_cache
           THEN \* `await self._execute_request(...).data`: the coroutine object has no
                \* attribute data, nothing of _execute_request runs
                /\ Finish(kw, "attribute", FALSE, "AttributeError", 0)
                /\ UNCHANGED <<c_fetches, c_req>>
           ELSE IF IsFresh(entry, c_now)
           THEN /\ Finish(kw, "hit", FALSE, "data", entry.data)
                /\ UNCHANGED <<c_fetches, c_req>>
           ELSE IF GateClosed(c_failing, c_until, c_now)
           THEN /\ LET stale == GetBackingOffResult(serve_stale, entry)
                   IN  IF stale = NoEntry
                       THEN Finish(kw, "gate", FALSE, "BackingOff", c_until)
                       ELSE ServeAndStore(kw, stale, "gate", FALSE)
                /\ UNCHANGED <<c_fetches, c_req>>
           ELSE \* await self._perform_request(expired_cache_entry=..., **kwargs)
                /\ c_fetches < limit
                /\ c_fetches' = c_fetches + 1
                /\ c_req' = [c_req EXCEPT ![s] = [pc |-> "fetching", kw |-> kw,
                                 now |-> c_now, expired |-> entry, id |-> c_fetches + 1]]
                /\ UNCHANGED <<c_cache, c_prev, c_last, c_done>>
    /\ UNCHANGED <<c_now, c_current, c_failing, c_until, c_window, c_streak>>
    /\ UNCHANGED <<presVars, supVars, queueVars, implVars, compVars, rtVars, peerVars,
                   backoffVars>>

Request(s, kw, dont_cache, serve_stale) ==
    RequestUpTo(MaxFetches, s, kw, dont_cache, serve_stale)

\* the lifetimes a backend gives the entries it returns
TTLs == {0, CacheBackoffStart}

\* _perform_request returns an entry: a new one, or the expired one unchanged
\* (not modified); _execute_request resets the backoff, request stores the entry
FetchReturns(s) ==
    /\ c_req[s].pc = "fetching"
    /\ LET rec == c_req[s]
           b == BackoffReset(CacheBackoffStart, c_failing)
       IN  /\ \E entry \in {[data |-> rec.id, expires |-> c_now + ttl] : ttl \in TTLs}
                           \cup ({rec.expired} \ {NoEntry}) :
                  ServeAndStore(rec.kw, entry, "fetch", FALSE)
           /\ c_current' = b.current
           /\ c_failing' = b.failing
    /\ c_streak' = [n |-> 0, before |-> c_streak.n]
    /\ c_req' = [c_req EXCEPT ![s] = IdleReq]
    /\ UNCHANGED <<c_now, c_until, c_fetches, c_window>>
    /\ UNCHANGED <<presVars, supVars, queueVars, implVars, compVars, rtVars, peerVars,
                   backoffVars>>

\* _perform_request raises RequestError(back_off=..., cache_entry=...)
FetchFails(s, back_off, with_fallback) ==
    /\ c_req[s].pc = "fetching"
    /\ LET rec == c_req[s]
           fallback == IF with_fallback THEN rec.expired ELSE NoEntry
           f == RequestFailed(back_off, fallback, rec.now, c_current, c_failing, c_until)
       IN  /\ c_until' = f.until
           /\ c_current' = f.current
           /\ c_failing' = f.failing
           /\ c_window' = IF back_off /\ fallback = NoEntry /\ f.until > c_window
                         THEN f.until ELSE c_window
           /\ IF fallback = NoEntry
              THEN Finish(rec.kw, "error", back_off, "RequestError", 0)
              ELSE ServeAndStore(rec.kw, fallback, "fallback", back_off)
    /\ c_streak' = IF back_off THEN [c_streak EXCEPT !.n = @ + 1] ELSE c_streak
    /\ c_req' = [c_req EXCEPT ![s] = IdleReq]
    /\ UNCHANGED <<c_now, c_fetches>>
    /\ UNCHANGED <<presVars, supVars, queueVars, implVars, compVars, rtVars, peerVars,
                   backoffVars>>

\* datetime.utcnow() moves on
CacheTick ==
    /\ c_now + CacheBackoffStart <= MaxTicks * CacheBackoffStart
    /\ c_now' = c_now + CacheBackoffStart
    /\ UNCHANGED <<c_cache, c_current, c_failing, c_until, c_req, c_fetches, c_prev,
                   c_last, c_window, c_done, c_streak>>
    /\ UNCHANGED <<presVars, supVars, queueVars, implVars, compVars, rtVars, peerVars,
                   backoffVars>>

\* datetime.utcnow() moves on to the end of the backoff window or to the moment
\* after a stored entry has expired: the callers wait before they ask again
CacheSleep ==
    /\ \E t \in {c_until} \cup {c_cache[k].expires + 1 : k \in DOMAIN c_cache} :
           /\ t > c_now
           /\ c_now' = t
    /\ UNCHANGED <<c_cache, c_current, c_failing, c_until, c_req, c_fetches, c_prev,
                   c_last, c_window, c_done, c_streak>>
    /\ UNCHANGED <<presVars, supVars, queueVars, implVars, compVars, rtVars, peerVars,
                   backoffVars>>

\* AdvancedRequester.__init__, no request made yet
InitCache ==
    /\ c_now = 0
    /\ c_cache = [k \in {} |-> NoEntry]
    /\ c_current = CacheBackoffStart
    /\ c_failing = FALSE
    /\ c_until = -1
    /\ c_req = [s \in Slots |-> IdleReq]
    /\ c_fetches = 0
    /\ c_prev = [p \in Params |-> NoEntry]
    /\ c_last = [p \in Params |-> Stored(<<>>, NoEntry)]
    /\ c_window = -1
    /\ c_done = [kw |-> <<>>, via |-> "none", bo |-> FALSE, res |-> NoRes]
    /\ c_streak = [n |-> 0, before |-> 0]

-----------------------------------------------------------------------------
(* hintlib.services.PeerLockService *)

\* the bare peer addresses that presence is received from or that are registered
Peers == {"peer1", "peer2"}

\* None where an address is expected; a bare address is <<bare>>, a full
\* address <<bare, resource>>
NoAddr == <<>>
BareJid(b) == <<b>>
\* jid.replace(resource=r)
FullJid(b, r) == <<b, r>>
\* jid.bare(), as the key of _state and of the presence table
Bare(jid) == jid[1]
\* jid.resource is not None
HasResource(jid) == Len(jid) = 2

\* the addresses register_peer is called with
Jids == {BareJid(b) : b \in Peers} \cup {FullJid(b, r) : b \in Peers, r \in Resources}

\* PeerHandle.__init__; `id` tells the PeerHandle objects apart
NewHandle(id) == [id |-> id, full_jid |-> NoAddr, lock_event |-> FALSE]

\* a signal of a handle fired with an argument
Fired(h, signal, arg) == [id |-> h.id, signal |-> signal, arg |-> arg]

\* what a handler leaves behind: _state, the signals fired, the exception raised
Handled(state, signals, exc) == [state |-> state, signals |-> signals, exc |-> exc]

HandleUnlockKeepEvent(h) ==
    [handle |-> [h EXCEPT !.full_jid = NoAddr],
     signals |-> IF h.full_jid # NoAddr THEN <<Fired(h, "on_unlocked", NoAddr)>> ELSE <<>>]

\* PeerHandle._unlock
HandleUnlock(h) ==
    [handle |-> [h EXCEPT !.full_jid = NoAddr, !.lock_event = FALSE],
     signals |-> IF h.full_jid # NoAddr THEN <<Fired(h, "on_unlocked", NoAddr)>> ELSE <<>>]

HandleLockAlwaysNotify(h, full_jid) ==
    [handle |-> [h EXCEPT !.full_jid = full_jid, !.lock_event = TRUE],
     signals |-> <<Fired(h, "on_locked", full_jid)>>]

\* PeerHandle._lock
HandleLock(h, full_jid) ==
    [handle |-> [h EXCEPT !.full_jid = full_jid, !.lock_event = TRUE],
     signals |-> IF h.full_jid # full_jid THEN <<Fired(h, "on_locked", full_jid)>> ELSE <<>>]

\* self._state[key] = handle
StatePut(state, key, handle) ==
    [k \in DOMAIN state \cup {key} |-> IF k = key THEN handle ELSE state[k]]

\* _on_stream_destroyed: `handle.unlock()` on the first handle of _state; a
\* PeerHandle has _unlock but no attribute unlock
PeerOnStreamDestroyed(state) ==
    IF DOMAIN state = {}
    THEN Handled(state, <<>>, "none")
    ELSE Handled(state, <<>>, "AttributeError")

\* _on_available(full_jid, stanza), stanza.from_ being full_jid
PeerOnAvailable(state, full_jid) ==
    IF Bare(full_jid) \notin DOMAIN state
    THEN Handled(state, <<>>, "none")
    ELSE LET l == HandleLock(state[Bare(full_jid)], full_jid)
         IN  Handled(StatePut(state, Bare(full_jid), l.handle), l.signals, "none")

\* _on_unavailable(full_jid, stanza): for a registered peer it reads
\* self.__presence, an attribute that PeerLockService never sets
PeerOnUnavailable(state, full_jid) ==
    IF Bare(full_jid) \notin DOMAIN state
    THEN Handled(state, <<>>, "none")
    ELSE Handled(state, <<>>, "AttributeError")

PeerOnBareUnavailableIgnored(state, b) == Handled(state, <<>>, "none")

\* _on_bare_unavailable(stanza), stanza.from_.bare() being b
PeerOnBareUnavailable(state, b) ==
    IF b \notin DOMAIN state
    THEN Handled(state, <<>>, "none")
    ELSE LET u == HandleUnlock(state[b])
         IN  Handled(StatePut(state, b, u.handle), u.signals, "none")

RegisterPeerAlwaysNew(state, made, peer_jid, resources) ==
    IF HasResource(peer_jid)
    THEN {[state |-> state, signals |-> <<>>, exc |-> "ValueError", ret |-> 0,
           made |-> made]}
    ELSE {[state |-> StatePut(state, Bare(peer_jid), NewHandle(made + 1)),
           signals |-> <<>>, exc |-> "none", ret |-> made + 1, made |-> made + 1]}

\* register_peer(peer_jid), `resources` being what get_peer_resources(peer_jid)
\* holds: the outcomes, one for each resource that next(iter(...)) may give
RegisterPeer(state, made, peer_jid, resources) ==
    IF HasResource(peer_jid)
    THEN {[state |-> state, signals |-> <<>>, exc |-> "ValueError", ret |-> 0,
           made |-> made]}
    ELSE IF Bare(peer_jid) \in DOMAIN state
    THEN {[state |-> state, signals |-> <<>>, exc |-> "none",
           ret |-> state[Bare(peer_jid)].id, made |-> made]}
    ELSE LET handle == NewHandle(made + 1)
         IN  IF resources = {}
             THEN {[state |-> StatePut(state, Bare(peer_jid), handle),
                    signals |-> <<>>, exc |-> "none", ret |-> handle.id,
                    made |-> made + 1]}
             ELSE {LET l == HandleLock(handle, FullJid(Bare(peer_jid), resource))
                   IN  [state |-> StatePut(state, Bare(peer_jid), l.handle),
                        signals |-> l.signals, exc |-> "none", ret |-> handle.id,
                        made |-> made + 1] : resource \in resources}

\* the history kept of a handler or call
Called(op, jid, exc, ret) == [op |-> op, jid |-> jid, exc |-> exc, ret |-> ret]

\* PresenceClient receives available presence from a resource that was not
\* present, notes it and fires on_available
PlAvailable(b, r) ==
    /\ r \notin pl_presence[b]
    /\ pl_presence' = [pl_presence EXCEPT ![b] = @ \cup {r}]
    /\ LET h == PeerOnAvailable(pl_state, FullJid(b, r))
       IN  /\ pl_state' = h.state
           /\ pl_signals' = h.signals
           /\ pl_result' = Called("on_available", FullJid(b, r), h.exc, 0)
    /\ UNCHANGED pl_made
    /\ UNCHANGED <<presVars, supVars, queueVars, implVars, compVars, rtVars, cacheVars,
                   backoffVars>>

\* PresenceClient receives unavailable presence from a present resource, drops
\* it and fires on_unavailable; if that was the last resource of the peer it
\* fires on_bare_unavailable next.  A handler that raises does not keep the
\* other signal from being fired.
PlUnavailable(b, r) ==
    /\ r \in pl_presence[b]
    /\ pl_presence' = [pl_presence EXCEPT ![b] = @ \ {r}]
    /\ LET h == PeerOnUnavailable(pl_state, FullJid(b, r))
           g == IF pl_presence[b] = {r}
                THEN PeerOnBareUnavailable(h.state, b)
                ELSE Handled(h.state, <<>>, "none")
       IN  /\ pl_state' = g.state
           /\ pl_signals' = h.signals \o g.signals
           /\ pl_result' = Called("on_unavailable", FullJid(b, r), h.exc, 0)
    /\ UNCHANGED pl_made
    /\ UNCHANGED <<presVars, supVars, queueVars, implVars, compVars, rtVars, cacheVars,
                   backoffVars>>

\* PresenceClient receives unavailable presence from the bare address of a peer
\* it has presence of, drops all its resources and fires on_bare_unavailable
PlBareUnavailable(b) ==
    /\ pl_presence[b] # {}
    /\ pl_presence' = [pl_presence EXCEPT ![b] = {}]
    /\ LET h == PeerOnBareUnavailable(pl_state, b)
       IN  /\ pl_state' = h.state
           /\ pl_signals' = h.signals
           /\ pl_result' = Called("on_bare_unavailable", BareJid(b), h.exc, 0)
    /\ UNCHANGED pl_made
    /\ UNCHANGED <<presVars, supVars, queueVars, implVars, compVars, rtVars, cacheVars,
                   backoffVars>>

\* the client fires on_stream_destroyed; the presence table is kept or emptied
PlStreamDestroyed ==
    /\ pl_presence' \in {pl_presence, [b \in Peers |-> {}]}
    /\ LET h == PeerOnStreamDestroyed(pl_state)
       IN  /\ pl_state' = h.state
           /\ pl_signals' = h.signals
           /\ pl_result' = Called("on_stream_destroyed", NoAddr, h.exc, 0)
    /\ UNCHANGED pl_made
    /\ UNCHANGED <<presVars, supVars, queueVars, implVars, compVars, rtVars, cacheVars,
                   backoffVars>>

\* a user of the service calls register_peer(peer_jid)
PlRegisterPeer(peer_jid) ==
    /\ \E h \in RegisterPeer(pl_state, pl_made, peer_jid, pl_presence[Bare(peer_jid)]) :
           /\ pl_state' = h.state
           /\ pl_made' = h.made
           /\ pl_signals' = h.signals
           /\ pl_result' = Called("register_peer", peer_jid, h.exc, h.ret)
    /\ UNCHANGED pl_presence
    /\ UNCHANGED <<presVars, supVars, queueVars, implVars, compVars, rtVars, cacheVars,
                   backoffVars>>

\* PeerLockService.__init__: no peer registered, no presence received
InitPeer ==
    /\ pl_presence = [b \in Peers |-> {}]
    /\ pl_state = [b \in {} |-> NewHandle(0)]
    /\ pl_made = 0
    /\ pl_signals = <<>>
    /\ pl_result = Called("none", NoAddr, "none", 0)

-----------------------------------------------------------------------------
(* hintlib.utils.ExponentialBackOff on its own *)

\* ExponentialBackOff.__init__(base, start, max_)
Config(start, base, max_) == [start |-> start, base |-> base, max_ |-> max_]

\* next(backoff), no more than `limit` times without a reset between
BackoffAdvance(limit) ==
    /\ Len(bo_vals) < limit
    /\ LET b == BackoffNext(bo_current, bo_cfg.base, bo_cfg.max_)
       IN  /\ bo_current' = b.current
           /\ bo_failing' = b.failing
           /\ bo_vals' = Append(bo_vals, b.val)
    /\ UNCHANGED <<bo_cfg, bo_prev>>
    /\ UNCHANGED <<presVars, supVars, queueVars, implVars, compVars, rtVars, cacheVars,
                   peerVars>>

\* backoff.reset()
BackoffDoReset ==
    /\ LET b == BackoffReset(bo_cfg.start, bo_failing)
       IN  /\ bo_current' = b.current
           /\ bo_failing' = b.failing
    /\ bo_prev' = bo_vals
    /\ bo_vals' = <<>>
    /\ UNCHANGED bo_cfg
    /\ UNCHANGED <<presVars, supVars, queueVars, implVars, compVars, rtVars, cacheVars,
                   peerVars>>

\* ExponentialBackOff.__init__
InitBackoff(cfg) ==
    /\ bo_cfg = cfg
    /\ bo_current = cfg.start
    /\ bo_failing = FALSE
    /\ bo_vals = <<>>
    /\ bo_prev = <<>>

InitExt ==
    /\ InitTask
    /\ InitCache
    /\ InitPeer
    /\ InitBackoff(Config(BackoffStart, BackoffBase, BackoffMax))

-----------------------------------------------------------------------------
(* State after construction *)

\* PresenceClient with no presence received, SenderService.__init__
InitSender ==
    /\ present = {}
    /\ locked_to = NoJid
    /\ lock_event = FALSE
    /\ ev_fut = "none"
    /\ sup = "init"
    /\ task_funs = <<>>
    /\ tasks = [f \in AllFuns |-> NoTask]
    /\ shutdown_result = "none"
    /\ fresh = FALSE

\* SubmitterServiceMixin.__init__ without its add_task call
InitQueue ==
    /\ queue = <<>>
    /\ maxsize = DefaultQueueSize
    /\ qgen = 0
    /\ dropped = <<>>
    /\ closed = EmptyBag
    /\ next_id = 0
    /\ resize_dropped = 0
    /\ impl_pc = "idle"
    /\ impl_item = 0
    /\ impl_q = 0
    /\ delivered = <<>>

\* StreamSubmitterService.__init__: the front queue and the compressor task
InitCompressor ==
    /\ front_queue = <<>>
    /\ comp_task = "new"
    /\ comp_item = 0
    /\ block_ok = <<>>
    /\ pushed = <<>>
    /\ comp_cancelled = FALSE

-----------------------------------------------------------------------------
(* The supervisor with generic worker functions *)

InitSup == InitSender /\ InitQueue /\ InitCompressor /\ InitExt

NextSup ==
    \/ \E r \in Resources : OnAvailable(r)
    \/ \E r \in Resources : OnUnavailable(r)
    \/ OnBareUnavailable
    \/ \E f \in Funs : AddTask(f)
    \/ EvFutStep
    \/ ManageTasks
    \/ Shutdown
    \/ \E f \in Funs : PauseDone(f)
    \/ \E f \in Funs : WorkerStart(f)
    \/ \E f \in Funs, v \in 0..MaxVal : WorkerReturns(f, v)
    \/ \E f \in Funs : WorkerRaises(f)

SpecSup == InitSup /\ [][NextSup]_vars

\* The event loop runs every ready callback: the supervisor and the task of
\* ev_fut are resumed once they are ready, a started task gets its first step
\* and a sleep ends.  Presence events, registrations, teardown and the
\* outcome of a worker function are not owed by anyone.
FairSpecSup ==
    /\ SpecSup
    /\ WF_vars(ManageTasks)
    /\ WF_vars(EvFutStep)
    /\ \A f \in Funs : WF_vars(PauseDone(f)) /\ WF_vars(WorkerStart(f))

-----------------------------------------------------------------------------
(* One channel: the supervisor running _impl of a stream submitter *)

\* the services constructed (SubmitterServiceMixin.__init__ has called
\* add_task(self._impl)) and the capacity configured through queue_size
Init ==
    /\ present = {}
    /\ locked_to = NoJid
    /\ lock_event = TRUE
    /\ ev_fut = "none"
    /\ sup = "init"
    /\ task_funs = <<ImplFun>>
    /\ tasks = [f \in AllFuns |-> NoTask]
    /\ shutdown_result = "none"
    /\ fresh = TRUE
    /\ queue = <<>>
    /\ maxsize \in 1..MaxCap
    /\ qgen = 0
    /\ dropped = <<>>
    /\ closed = EmptyBag
    /\ next_id = 0
    /\ resize_dropped = 0
    /\ impl_pc = "idle"
    /\ impl_item = 0
    /\ impl_q = 0
    /\ delivered = <<>>
    /\ InitCompressor
    /\ InitExt

Next ==
    \/ \E r \in Resources : OnAvailable(r)
    \/ \E r \in Resources : OnUnavailable(r)
    \/ OnBareUnavailable
    \/ EvFutStep
    \/ ManageTasks
    \/ PauseDone(ImplFun)
    \/ Enqueue
    \/ \E v \in 1..MaxCap : SetQueueSize(v)
    \/ ImplStart
    \/ ImplGet
    \/ SendOk
    \/ SendTransient
    \/ ResubmitReturn
    \/ SendFatal

Spec == Init /\ [][Next]_vars

-----------------------------------------------------------------------------
(* The delivery queue alone: a channel whose peer is not present *)

QueueSizes == (1..MaxCap) \cup {DefaultQueueSize}

NextQueue ==
    \/ EnqueueFill
    \/ \E v \in QueueSizes : SetQueueSize(v)

SpecQueue == InitSup /\ [][NextQueue]_vars

-----------------------------------------------------------------------------
(* The compression stage feeding the delivery queue *)

NextStream ==
    \/ \E ok \in BOOLEAN : SubmitBlock(ok)
    \/ CompressorStart
    \/ CompressorGet
    \/ CompressOk
    \/ CompressFail
    \/ HandleCompressorTaskDone

SpecStream == Init /\ [][NextStream]_vars

\* The loop resumes the compressor task when a block is there, the executor
\* finishes every job, and done callbacks are run.
FairSpecStream ==
    /\ SpecStream
    /\ WF_vars(CompressorStart)
    /\ WF_vars(CompressorGet)
    /\ WF_vars(CompressOk)
    /\ WF_vars(CompressFail)
    /\ WF_vars(HandleCompressorTaskDone)

-----------------------------------------------------------------------------
(* Claims about the channel supervisor *)

SupRunning == sup \in {"init", "waiting"}

\* a task for f is created in this step
Started(f) == tasks'[f].st = "new" /\ tasks[f] # tasks'[f]

\* a run is only ever created for a registered function, while the target is
\* locked, with the locked address as its destination
StartsOnlyLocked ==
    \A f \in AllFuns :
        Started(f) =>
            /\ locked_to # NoJid
            /\ tasks'[f].dest = locked_to
            /\ f \in Range(task_funs)

\* f is registered, the target is locked and f has no live run
Startable(f) ==
    /\ locked_to # NoJid
    /\ f \in Range(task_funs)
    /\ ~Live(tasks[f])

\* C3 as stated: no run is started while the target is unlocked, and once the
\* target is locked every registered worker function without a live run
\* eventually gets one (as long as the supervisor is not torn down).
C3_Claim ==
    /\ [][StartsOnlyLocked]_vars
    /\ \A f \in Funs :
         (SupRunning /\ Startable(f)) ~> (Live(tasks[f]) \/ ~SupRunning)

\* C3 amended: no run is started while the target is unlocked, and once the
\* target is locked every registered worker function without a live run
\* eventually gets one with the then locked address, unless the lock is lost
\* or the supervisor is torn down first.
C3_Thm ==
    /\ [][StartsOnlyLocked]_vars
    /\ \A f \in Funs :
         (SupRunning /\ Startable(f)) ~>
             (Live(tasks[f]) \/ locked_to = NoJid \/ ~SupRunning)

\* a run was just created for the address the target is locked to
C3_Witness ==
    \E f \in Funs :
        /\ tasks[f].st = "new"
        /\ locked_to # NoJid
        /\ tasks[f].dest = locked_to

\* C4 as stated: every live worker run is bound to the currently locked
\* address.
C4_Claim ==
    \A f \in AllFuns : Live(tasks[f]) => tasks[f].dest = locked_to

\* C4 amended: a run is created with the address locked at that moment and
\* keeps it for as long as it is live; a change of the lock neither stops nor
\* re-addresses nor starts any run.
C4_Thm ==
    [][ /\ StartsOnlyLocked
        /\ \A f \in AllFuns :
             (Live(tasks[f]) /\ ~Started(f)) =>
                 (Live(tasks'[f]) => tasks'[f].dest = tasks[f].dest)
        /\ locked_to' # locked_to => tasks' = tasks ]_vars

\* a live run whose destination is not the address the target is now locked to
C4_Witness ==
    \E f \in Funs :
        /\ Live(tasks[f])
        /\ locked_to # NoJid
        /\ tasks[f].dest # locked_to

\* C5 as stated: no wrapped run completes with an error outcome.
C5_Claim ==
    \A f \in AllFuns : tasks[f].st = "done" => ~tasks[f].exc

\* C6 as stated: once _shutdown has returned it has returned without an error
\* and no worker run is live.
C6_Claim ==
    shutdown_result # "none" =>
        /\ shutdown_result = "ok"
        /\ \A f \in AllFuns : ~Live(tasks[f])

\* the supervisor is resumed from asyncio.wait in this step
Iterates == sup = "waiting" /\ ev_fut # "created" /\ ev_fut' = "created"

\* C7 as stated: the supervisor is resumed from its wait only when a worker
\* run has completed or the signal has been set since the wait began.
C7_Claim == [][Iterates => fresh]_vars

-----------------------------------------------------------------------------
(* Claims about the delivery queue *)

Ids(n) == [i \in 1..n |-> i]


\* with no dequeue, the items handed to the drop hook followed by the items
\* in the queue are all items enqueued so far, in arrival order; the new item
\* is at the back of the queue; while the capacity C is the one of the
\* constructor the queue holds min(N, C) of the N items enqueued
QueueInv ==
    /\ dropped \o queue = Ids(next_id)
    /\ closed = SeqToBag(dropped)
    /\ Len(queue) <= maxsize
    /\ next_id > 0 => queue[Len(queue)] = next_id
    /\ qgen = 0 => Len(queue) = Min(next_id, maxsize)

\* C1: an enqueue always ends with the new item in the queue and drops an
\* item only if the queue is full, and then exactly the oldest one, handing it
\* to the drop hook once; so with no dequeue only the oldest items are
\* dropped, each once, and the newest are kept in arrival order (20 items
\* into capacity 16: 4 dropped, the last 16 kept).
C1_Thm ==
    /\ [](QueueInv)
    /\ [][next_id' # next_id => Len(queue') = Min(Len(queue) + 1, maxsize)]_vars

\* 20 items went into the queue of capacity 16 and 4 were dropped
C1_Witness ==
    /\ qgen = 0
    /\ maxsize = DefaultQueueSize
    /\ next_id = FillItems
    /\ Len(dropped) = FillItems - DefaultQueueSize
    /\ Len(queue) = DefaultQueueSize

\* C9: a call of the queue_size setter with V on a queue of n items leaves
\* the newest min(n, V) items in the queue, in their order, and hands the
\* n - min(n, V) oldest to the drop hook, once each and oldest first.
C9_Thm ==
    [][qgen' # qgen =>
        /\ dropped' \o queue' = dropped \o queue
        /\ Len(queue') = Min(Len(queue), maxsize')
        /\ closed' = closed (+) SeqToBag(SubSeq(queue, 1, Len(queue) - Len(queue')))
      ]_vars

\* the setter has dropped items and has kept others
C9_Witness ==
    /\ resize_dropped > 1
    /\ Len(queue) > 1
    /\ Len(queue) = maxsize

-----------------------------------------------------------------------------
(* Claims about the delivery worker *)

RECURSIVE Increasing(_)
Increasing(q) ==
    IF Len(q) < 2 THEN TRUE ELSE q[1] < q[2] /\ Increasing(Tail(q))

\* C2 as stated: items are sent in arrival order, and a run started after a
\* run of _impl that returned an item is seeded with that item.
C2_Claim ==
    /\ [](Increasing(delivered))
    /\ [][(Started(ImplFun) /\ tasks[ImplFun].ret # 0) =>
            tasks'[ImplFun].seed = tasks[ImplFun].ret]_vars

\* _submit_single ends with an exception that is not an XMPPError in this step
FatalStep == impl_pc = "send" /\ tasks'[ImplFun].st = "pause_err"

\* C8 as stated: when a send fails fatally the item is not kept for a retry
\* and its handle has been closed once.
C8_Claim ==
    [][FatalStep =>
        /\ impl_item' = 0
        /\ tasks'[ImplFun].ret = 0
        /\ CopiesIn(impl_item, closed') = 1]_vars

-----------------------------------------------------------------------------
(* Claims about the compression stage *)

\* block b has left the stage
Processed(b) ==
    /\ b <= Len(block_ok)
    /\ b \notin Range(front_queue)
    /\ b # comp_item

\* every block that has left the stage was pushed into the delivery queue if
\* its compression succeeds, and was dropped with its handle closed once if not
StageInv ==
    \A b \in 1..Len(block_ok) :
        Processed(b) =>
            IF block_ok[b]
            THEN /\ b \in Range(pushed)
                 /\ b \in Range(queue) \/ b \in Range(dropped)
            ELSE /\ b \notin Range(pushed)
                 /\ b \notin Range(queue)
                 /\ CopiesIn(b, closed) = 1

\* C10: a block whose compression fails is dropped with its handle closed
\* once and is the only block lost; every submitted block leaves the stage,
\* the ones whose compression succeeds into the delivery queue.
C10_Thm ==
    /\ [](StageInv)
    /\ \A b \in 1..MaxBlocks : (b <= Len(block_ok)) ~> Processed(b)

\* a block failed between two blocks that were compressed and pushed
C10_Witness ==
    \E a, b, c \in 1..Len(block_ok) :
        /\ a < b /\ b < c
        /\ ~block_ok[b] /\ Processed(b) /\ CopiesIn(b, closed) = 1
        /\ a \in Range(pushed) /\ c \in Range(pushed)

-----------------------------------------------------------------------------
(* One RestartingTask with its callers, its worker and the loop's callbacks *)

NextTask ==
    \/ RtStart
    \/ RtStop
    \/ RtRestart
    \/ RtWaitForTermination
    \/ RtWorkerReturns
    \/ RtWorkerRaises
    \/ RtWorkerCancelled
    \/ RtTaskDone
    \/ RtSoonFires
    \/ RtTimerFires
    \/ RtTick

SpecTask == InitSup /\ [][NextTask]_vars

-----------------------------------------------------------------------------
(* RestartingTask: claims *)

\* a worker invocation is created by this step
RtCreates == rt_nlive' > rt_nlive

\* C11: a RestartingTask has at most one live worker invocation in every
\* reachable state, and the live invocation is the task held in _task.
C11_Thm ==
    /\ rt_nlive \in {0, 1}
    /\ rt_nlive = 1 <=> rt_task \in {"running", "cancelling"}

\* a worker is live while a call_soon and a call_later callback are both pending
C11_Witness == rt_nlive = 1 /\ rt_soon > 0 /\ Len(rt_timers) > 0

\* a worker is live, or a restart is already on its way without any further call
RtEnsured ==
    \/ rt_task \in {"running", "cancelling", "crashed", "cancelled"}
    \/ rt_soon > 0
    \/ Len(rt_timers) > 0

C13_Thm ==
    /\ [](~rt_armed => ~rt_should_run)
    /\ [][~rt_armed' => ~RtCreates]_vars
    /\ [][~rt_armed' /\ rt_task = "running" => rt_task' # "running"]_vars

\* stop() was the last call: the worker it cancelled has ended and the restart
\* callback of an earlier crash is due
C13_Witness ==
    /\ ~rt_armed /\ rt_task = "cancelled"
    /\ Len(rt_timers) > 0 /\ rt_timers[1] = 0

\* C14: restart() with desired-run true resets the backoff and cancels the
\* current worker: until the new invocation exists, desired-run stays true and
\* the restart is on its way without a backoff delay (the cancelled worker is
\* ending or its call_soon restart is pending).
C14_Claim ==
    rt_forced => /\ rt_should_run
                 /\ rt_current = BackoffStart
                 /\ rt_task \in {"cancelling", "cancelled"} \/ rt_soon > 0

RECURSIVE Pow(_, _)
Pow(b, n) == IF n = 0 THEN 1 ELSE b * Pow(b, n - 1)

\* min(start*base^(k-1), cap)
Delay(k) == Min(BackoffStart * Pow(BackoffBase, k - 1), BackoffMax)

\* C15: a crash draws one delay and schedules one restart after it; the k-th
\* crash in a row (no start/stop/restart in between) draws
\* min(start*base^(k-1), cap), and the restart that follows it is not created
\* before that delay is over.
C15_Claim ==
    /\ [][rt_task = "crashed" /\ rt_task' = "none"
            => /\ rt_timers' = Append(rt_timers, Delay(rt_crashes'))
               /\ rt_crashes' = rt_crashes + 1
               /\ rt_soon' = rt_soon]_vars
    /\ [][RtCreates /\ rt_origin' \in {"soon", "timer"} /\ rt_crashes > 0
            => rt_due = 0]_vars

\* C16: when the worker's normal return is processed, desired-run is cleared;
\* from then on no invocation is created by a callback, only by start() or
\* restart().
C16_Thm ==
    /\ [][rt_task = "returned" /\ rt_task' = "none" => ~rt_should_run']_vars
    /\ [][RtCreates /\ ~rt_should_run => rt_origin' \in {"start", "restart"}]_vars
    /\ [][~rt_should_run /\ rt_should_run'
            => rt_armed' /\ ~rt_retd' /\ rt_crashes' = 0 /\ rt_due' = -1]_vars

\* the worker's return has been processed while the restart callback of an
\* earlier crash is due
C16_Witness ==
    /\ rt_retd /\ rt_task = "none" /\ ~rt_should_run /\ rt_armed
    /\ Len(rt_timers) > 0 /\ rt_timers[1] = 0

\* C17: wait_for_termination() completes without raising, whether the worker
\* ends by the cancellation it issued or had raised an error, and when it
\* completes desired-run is false and no worker invocation is live.
C17_Claim ==
    [][rt_waiter' # rt_waiter /\ rt_waiter' # "waiting"
        => /\ rt_waiter' = "returned"
           /\ ~rt_armed' => (~rt_should_run' /\ rt_nlive' = 0)]_vars

-----------------------------------------------------------------------------
(* One AdvancedRequester with its callers, its backend and the clock *)

NextCache ==
    \/ \E s \in Slots, kw \in Kwargs, dont_cache \in BOOLEAN, serve_stale \in BOOLEAN :
           Request(s, kw, dont_cache, serve_stale)
    \/ \E s \in Slots : FetchReturns(s)
    \/ \E s \in Slots, back_off \in BOOLEAN, with_fallback \in BOOLEAN :
           FetchFails(s, back_off, with_fallback)
    \/ CacheTick

SpecCache == InitSup /\ [][NextCache]_vars

-----------------------------------------------------------------------------
(* AdvancedRequester: claims *)

\* a request() call made with `kw` gets as far as calling the backend in this step
FetchStarts(kw) ==
    \E s \in Slots : c_req[s].pc = "idle" /\ c_req'[s].pc = "fetching" /\ c_req'[s].kw = kw

\* a request() call made with `kw` ends in this step without having suspended
EndsAtOnce(kw) ==
    /\ c_done' # c_done
    /\ c_done'.kw = kw
    /\ c_done'.via \in {"hit", "gate"}

\* a request made with `kw` at the present time, given that `rec` was stored for
\* its parameters and has not expired: the stored payload, no backend call, no
\* change of the backoff state
HitOn(kw, rec) ==
    (rec.data # 0 /\ rec.expires >= c_now)
        => /\ ~FetchStarts(kw)
           /\ EndsAtOnce(kw)
                => /\ c_done'.via = "hit"
                   /\ c_done'.res = [kind |-> "data", val |-> rec.data]
                   /\ UNCHANGED <<c_current, c_failing, c_until, c_fetches, c_cache>>

\* C18 as stated: a request with the parameters of ANY entry stored earlier,
\* made at now <= that entry's expiry, returns that entry's payload without a
\* backend call and without a change of the backoff state.
C18_Claim ==
    [][\A kw \in Kwargs : /\ HitOn(kw, c_last[Range(kw)])
                          /\ HitOn(kw, c_prev[Range(kw)])]_vars

\* C18: a request whose parameters (in any keyword order) have an entry stored
\* with expiry >= now returns the payload of the entry stored last for them,
\* without a backend call and without a change of the backoff state.
C18_Thm == [][\A kw \in Kwargs : HitOn(kw, c_last[Range(kw)])]_vars

\* a cache hit of a request that passed its keywords in another order than the
\* request that stored the entry
C18_Witness ==
    /\ c_done.via = "hit"
    /\ c_last[Range(c_done.kw)].kw # c_done.kw
    /\ c_last[Range(c_done.kw)].data = c_done.res.val

\* C19: after a fetch failed with back_off and no fallback, setting the window
\* end, a request that misses the cache and starts before that window end does
\* not call the backend, and a BackingOff it raises carries that window end.
C19_Claim ==
    [][c_now < c_window
        => /\ \A kw \in Kwargs : ~FetchStarts(kw)
           /\ \A kw \in Kwargs :
                  (EndsAtOnce(kw) /\ c_done'.res.kind = "BackingOff")
                      => c_done'.res.val = c_window]_vars

\* C20: a backend failure that carries a fallback entry makes request() return
\* the fallback's payload; if the failure asks for back-off the window end
\* becomes request time + next backoff delay, otherwise the backoff state stays.
C20_Thm ==
    [][\A s \in Slots :
           (c_req[s].pc = "fetching" /\ c_req'[s].pc = "idle" /\ c_done'.via = "fallback")
               => /\ c_req[s].expired # NoEntry
                  /\ c_done'.res = [kind |-> "data", val |-> c_req[s].expired.data]
                  /\ IF c_done'.bo
                     THEN /\ c_until' = c_req[s].now + c_current
                          /\ c_current' = Min(c_current * CacheBackoffBase, CacheBackoffMax)
                          /\ c_failing'
                     ELSE UNCHANGED <<c_until, c_current, c_failing>>]_vars

\* a failed fetch has served its fallback entry and the window it opened is on
C20_Witness ==
    /\ c_done.via = "fallback" /\ c_done.bo /\ c_done.res.kind = "data"
    /\ c_until > c_now

\* the fetch of caller `s` ends in this step with a failure that asks for back-off
BackOffFailure(s) ==
    /\ c_req[s].pc = "fetching"
    /\ c_req'[s].pc = "idle"
    /\ c_streak'.n = c_streak.n + 1

\* C22: a request with dont_cache=True leaves the cache map alone and ends
\* without a backend call only when the backoff gate is closed, then with
\* BackingOff; otherwise it ends with what the backend gives: the fetched
\* payload or the backend's error.
C22_Claim ==
    [][(c_done' # c_done /\ c_done'.via = "attribute")
        => /\ c_cache' = c_cache
           /\ GateClosed(c_failing, c_until, c_now)
           /\ c_done'.res.kind = "BackingOff"]_vars

\* C23: once a live fetch has succeeded, and until a fetch fails with back_off
\* again, no request is answered by the backoff gate (a request that misses the
\* cache calls the backend), and the next failure with back_off opens a window
\* of the start delay; this for all interleavings of overlapping requests.
C23_Claim ==
    [][c_streak.n = 0
        => /\ \A kw \in Kwargs : EndsAtOnce(kw) => c_done'.via = "hit"
           /\ \A s \in Slots :
                  BackOffFailure(s) => c_until' = c_req[s].now + CacheBackoffStart]_vars

-----------------------------------------------------------------------------
(* One AdvancedRequester with one caller, who makes one request after the *)
(* other and waits until the backoff window is over                        *)

\* the caller of the requests that are made one after the other
Caller == 1

NextWindow ==
    \/ \E kw \in Kwargs, dont_cache \in BOOLEAN, serve_stale \in BOOLEAN :
           RequestUpTo(WindowFetches, Caller, kw, dont_cache, serve_stale)
    \/ FetchReturns(Caller)
    \/ \E back_off \in BOOLEAN, with_fallback \in BOOLEAN :
           FetchFails(Caller, back_off, with_fallback)
    \/ CacheSleep

SpecWindow == InitSup /\ [][NextWindow]_vars

\* the k-th delay of the requester's backoff: 15, 30, 60, 120, 120, ...
CacheDelay(k) == Min(CacheBackoffStart * Pow(CacheBackoffBase, k - 1), CacheBackoffMax)

\* C21: the k-th fetch in a row that fails with back_off (k counted from the
\* last successful fetch, or from construction) sets the window end to the
\* start time of the failing request + min(15 * 2^(k-1), 120): 15, 30, 60 s
\* for three failures in a row, and 15 s again for the first failure after a
\* successful fetch.
C21_Thm ==
    [][\A s \in Slots :
           BackOffFailure(s) => c_until' = c_req[s].now + CacheDelay(c_streak'.n)]_vars

\* three failures in a row, a successful fetch, and one more failure, whose
\* window is the start delay again
C21_Witness ==
    /\ c_streak = [n |-> 1, before |-> 3]
    /\ c_done.via = "error" /\ c_done.bo
    /\ c_current = CacheBackoffStart * CacheBackoffBase

-----------------------------------------------------------------------------
(* One PeerLockService with the presence client, the stream and its users *)

NextPeer ==
    \/ \E b \in Peers, r \in Resources : PlAvailable(b, r)
    \/ \E b \in Peers, r \in Resources : PlUnavailable(b, r)
    \/ \E b \in Peers : PlBareUnavailable(b)
    \/ PlStreamDestroyed
    \/ \E peer_jid \in Jids : PlRegisterPeer(peer_jid)

SpecPeer == InitSup /\ [][NextPeer]_vars

-----------------------------------------------------------------------------
(* PeerLockService: claims *)

\* the address the handle of peer b is locked to in `state`, if it has one
LockedAddr(state, b) == IF b \in DOMAIN state THEN state[b].full_jid ELSE NoAddr

\* the signals among `signals` that the handle of peer b in `state` has fired
FiredBy(signals, state, b, signal) ==
    {i \in 1..Len(signals) : signals[i].id = state[b].id /\ signals[i].signal = signal}

\* this step handles available presence of resource r of peer b
AvailableStep(b, r) == r \notin pl_presence[b] /\ r \in pl_presence'[b]

\* this step handles unavailable presence of resource r of peer b
UnavailableStep(b, r) ==
    /\ r \in pl_presence[b]
    /\ pl_result'.op = "on_unavailable"
    /\ pl_result'.jid = FullJid(b, r)

\* this step handles peer b going offline altogether
BareUnavailableStep(b) ==
    /\ pl_presence[b] # {}
    /\ pl_presence'[b] = {}
    /\ pl_result'.op \in {"on_unavailable", "on_bare_unavailable"}

\* C24: available presence of resource R of a registered peer leaves the handle
\* locked to R's full address, whatever it was locked to; in every step a handle
\* fires on_locked exactly once if its locked address changes to a new non-null
\* address and not at all otherwise, and fires on_unlocked only if it was locked.
C24_Thm ==
    [][/\ \A b \in DOMAIN pl_state, r \in Resources :
              AvailableStep(b, r) => pl_state'[b].full_jid = FullJid(b, r)
       /\ \A b \in DOMAIN pl_state' :
              /\ Cardinality(FiredBy(pl_signals', pl_state', b, "on_locked"))
                     = IF /\ pl_state'[b].full_jid # NoAddr
                          /\ pl_state'[b].full_jid # LockedAddr(pl_state, b)
                       THEN 1 ELSE 0
              /\ \A i \in FiredBy(pl_signals', pl_state', b, "on_locked") :
                     pl_signals'[i].arg = pl_state'[b].full_jid
              /\ FiredBy(pl_signals', pl_state', b, "on_unlocked") # {}
                     => LockedAddr(pl_state, b) # NoAddr]_vars

\* a handle locked to r1 is locked to r2 by available presence of r2 and has
\* fired on_locked once
C24_Witness ==
    \E b \in DOMAIN pl_state :
        /\ pl_presence[b] = Resources
        /\ pl_result = Called("on_available", FullJid(b, "r2"), "none", 0)
        /\ pl_state[b].full_jid = FullJid(b, "r2")
        /\ pl_signals = <<Fired(pl_state[b], "on_locked", FullJid(b, "r2"))>>

\* C25: unavailable presence of the address a registered peer's handle is locked
\* to leaves the handle locked to the full address of another resource of the
\* peer that is present, if there is one, and unlocked if there is none.
C25_Claim ==
    [][\A b \in DOMAIN pl_state, r \in Resources :
           (UnavailableStep(b, r) /\ pl_state[b].full_jid = FullJid(b, r))
               => IF pl_presence'[b] # {}
                  THEN pl_state'[b].full_jid \in {FullJid(b, q) : q \in pl_presence'[b]}
                  ELSE pl_state'[b].full_jid = NoAddr]_vars

\* C26: when on_stream_destroyed has been handled, the handler has raised nothing
\* and every handle has no locked address and a cleared lock_event.
C26_Claim ==
    pl_result.op = "on_stream_destroyed"
        => /\ pl_result.exc = "none"
           /\ \A b \in DOMAIN pl_state :
                  pl_state[b].full_jid = NoAddr /\ ~pl_state[b].lock_event

\* C27: when a registered peer goes offline altogether its handle ends with no
\* locked address and a cleared lock_event, whatever it was before, and no other
\* handle changes; presence of a peer that is not registered changes no handle
\* and fires nothing.
C27_Thm ==
    [][\A b \in Peers :
           /\ (BareUnavailableStep(b) /\ b \in DOMAIN pl_state)
                  => /\ DOMAIN pl_state' = DOMAIN pl_state
                     /\ pl_state'[b].full_jid = NoAddr
                     /\ ~pl_state'[b].lock_event
                     /\ \A c \in DOMAIN pl_state \ {b} : pl_state'[c] = pl_state[c]
           /\ (/\ pl_presence'[b] # pl_presence[b]
               /\ pl_result'.op # "on_stream_destroyed"
               /\ b \notin DOMAIN pl_state)
                  => pl_state' = pl_state /\ pl_signals' = <<>>]_vars

\* on_bare_unavailable has unlocked a handle that was locked
C27_Witness ==
    \E b \in DOMAIN pl_state :
        /\ pl_result = Called("on_bare_unavailable", BareJid(b), "none", 0)
        /\ pl_signals = <<Fired(pl_state[b], "on_unlocked", NoAddr)>>
        /\ pl_state[b].full_jid = NoAddr

\* C28: the lock_event of every handle is set exactly when its full_jid is not None.
C28_Thm ==
    \A b \in DOMAIN pl_state : pl_state[b].lock_event <=> pl_state[b].full_jid # NoAddr

\* one handle has been unlocked in the last step, its event cleared with it,
\* while another one is locked
C28_Witness ==
    \E b \in DOMAIN pl_state, c \in DOMAIN pl_state :
        /\ pl_signals = <<Fired(pl_state[b], "on_unlocked", NoAddr)>>
        /\ ~pl_state[b].lock_event
        /\ pl_state[c].lock_event

\* C29: handles are never removed nor replaced and no two peers share one;
\* register_peer of an address with a resource raises ValueError and leaves the
\* handles alone; of a registered peer it returns that peer's handle and
\* changes nothing; of a new peer it adds one new handle, locked (to a present
\* resource of the peer) if and only if the peer has a present resource.
C29_Thm ==
    [][/\ \A b \in DOMAIN pl_state :
              b \in DOMAIN pl_state' /\ pl_state'[b].id = pl_state[b].id
       /\ \A b \in DOMAIN pl_state', c \in DOMAIN pl_state' :
              pl_state'[b].id = pl_state'[c].id => b = c
       /\ pl_result'.op = "register_peer"
              => LET jid == pl_result'.jid
                     b == Bare(jid)
                 IN  IF HasResource(jid)
                     THEN pl_result'.exc = "ValueError" /\ pl_state' = pl_state
                     ELSE /\ pl_result'.exc = "none"
                          /\ pl_result'.ret = pl_state'[b].id
                          /\ DOMAIN pl_state' = DOMAIN pl_state \cup {b}
                          /\ IF b \in DOMAIN pl_state
                             THEN pl_state' = pl_state
                             ELSE /\ pl_state'[b].full_jid
                                         \in IF pl_presence[b] = {}
                                             THEN {NoAddr}
                                             ELSE {FullJid(b, r) : r \in pl_presence[b]}
                                  /\ \A c \in DOMAIN pl_state : pl_state'[c] = pl_state[c]]_vars

\* a second register_peer of a peer whose handle is locked has returned the
\* handle made by the first, while another peer has its own handle
C29_Witness ==
    /\ pl_result.op = "register_peer"
    /\ pl_result.exc = "none"
    /\ pl_signals = <<>>
    /\ pl_made = Cardinality(Peers)
    /\ pl_state[Bare(pl_result.jid)].id = pl_result.ret
    /\ pl_state[Bare(pl_result.jid)].full_jid # NoAddr

-----------------------------------------------------------------------------
(* One ExponentialBackOff, built with any of a few configurations *)

\* the arguments ExponentialBackOff is built with
Starts == -1 .. 2
Bases  == 1 .. 3
Caps   == {2, 5}

InitAnyBackoff ==
    /\ InitSender /\ InitQueue /\ InitCompressor
    /\ InitTask /\ InitCache /\ InitPeer
    /\ \E start \in Starts, base \in Bases, max_ \in Caps :
           InitBackoff(Config(start, base, max_))

NextBackoff ==
    \/ BackoffAdvance(MaxAdvances)
    \/ BackoffDoReset

SpecBackoff == InitAnyBackoff /\ [][NextBackoff]_vars

-----------------------------------------------------------------------------
(* ExponentialBackOff: claims *)

\* the values returned since the last reset (or construction) are those of a
\* sequence that starts at start, is multiplied by base and saturates at max_
Saturating(vals, cfg) ==
    \A k \in 1..Len(vals) :
        /\ vals[k] = Min(cfg.start * Pow(cfg.base, k - 1), cfg.max_)
        /\ vals[k] <= cfg.max_
        /\ k > 1 => vals[k - 1] <= vals[k]

\* C30 as stated: with start <= cap and base >= 1, the delays returned without
\* a reset between are non-decreasing, never exceed the cap, the k-th being
\* min(start * base^(k-1), cap); after reset() the first is start again.
C30_Claim ==
    (bo_cfg.start <= bo_cfg.max_ /\ bo_cfg.base >= 1) => Saturating(bo_vals, bo_cfg)

\* C30: with 0 <= start <= cap and base >= 1, the delays returned without a
\* reset between are non-decreasing, never exceed the cap, the k-th being
\* min(start * base^(k-1), cap); after reset() the first is start again.
C30_Thm ==
    (0 <= bo_cfg.start /\ bo_cfg.start <= bo_cfg.max_ /\ bo_cfg.base >= 1)
        => Saturating(bo_vals, bo_cfg)

\* the delays have grown and saturated at the cap, reset() was called, and the
\* next delay returned is start again
C30_Witness ==
    /\ 0 < bo_cfg.start /\ bo_cfg.start < bo_cfg.max_
    /\ Len(bo_prev) >= 3
    /\ bo_prev[Len(bo_prev)] = bo_cfg.max_
    /\ bo_cfg.start * Pow(bo_cfg.base, Len(bo_prev) - 1) > bo_cfg.max_
    /\ bo_vals = <<bo_cfg.start>>

\* C31: the failing flag is true exactly when next() has been called since the
\* last reset() (or since construction); right after reset() it is false.
C31_Claim == bo_failing <=> Len(bo_vals) > 0

-----------------------------------------------------------------------------
(* AdvancedRequester: more claims *)

\* the fetch of caller `s` ends in this step with a failure
FetchFailure(s) ==
    /\ c_req[s].pc = "fetching"
    /\ c_req'[s].pc = "idle"
    /\ c_done'.via \in {"error", "fallback"}

\* C33: a backend failure with back_off=False leaves the current delay, the
\* failing flag and the window end as they were, so the gate a later request
\* meets is the one it would have met without the failed call.
C33_Thm ==
    [][\A s \in Slots :
           (FetchFailure(s) /\ ~c_done'.bo)
               => /\ UNCHANGED <<c_current, c_failing, c_until>>
                  /\ \A now \in {c_now, c_now + CacheBackoffStart} :
                         GateClosed(c_failing', c_until', now)
                             = GateClosed(c_failing, c_until, now)]_vars

\* a fetch has failed with back_off=False and no fallback while the window
\* opened by an earlier failure was still on, and the window is as it was
C33_Witness ==
    /\ c_done.via = "error" /\ ~c_done.bo
    /\ c_failing
    /\ c_until > c_now
    /\ c_current = CacheBackoffStart * CacheBackoffBase

\* C34: backing_off_until never moves backwards, whatever the interleaving of
\* overlapping requests.
C34_Claim == [][c_until' >= c_until]_vars

-----------------------------------------------------------------------------
(* One AdvancedRequester with one caller, asked for two places *)

NextKeys ==
    \/ \E kw \in AllKwargs, dont_cache \in BOOLEAN, serve_stale \in BOOLEAN :
           RequestUpTo(KeyFetches, Caller, kw, dont_cache, serve_stale)
    \/ FetchReturns(Caller)
    \/ \E back_off \in BOOLEAN, with_fallback \in BOOLEAN :
           FetchFails(Caller, back_off, with_fallback)
    \/ CacheSleep

SpecKeys == InitSup /\ [][NextKeys]_vars

\* the ways a request() call ends in an error
Errors == {"BackingOff", "RequestError", "AttributeError"}

\* a request() call ends in this step
RequestEnds ==
    \/ c_done' # c_done
    \/ \E s \in Slots : c_req[s].pc = "fetching" /\ c_req'[s].pc = "idle"

\* C35: a request() call that ends in an error leaves the cache map as it was:
\* the same keys with the same entries.
C35_Thm ==
    [][(RequestEnds /\ c_done'.res.kind \in Errors) => c_cache' = c_cache]_vars

\* a fetch has failed without a fallback while entries of two keys are stored
C35_Witness ==
    /\ c_done.via = "error"
    /\ c_done.res.kind = "RequestError"
    /\ Cardinality(DOMAIN c_cache) = 2
    /\ DeriveCacheKey(c_done.kw) \in DOMAIN c_cache

-----------------------------------------------------------------------------
(* RestartingTask: more claims *)

\* C36: a restart callback scheduled with call_later, for whichever crash,
\* creates a worker invocation only when the delay drawn for the most recent
\* crash is over (no start() or restart() having been called since that crash).
C36_Claim == [][(RtCreates /\ rt_origin' = "timer") => rt_due <= 0]_vars

-----------------------------------------------------------------------------
(* One channel whose peer stays present and whose sends all succeed *)

NextDelivery ==
    \/ \E r \in Resources : OnAvailable(r)
    \/ EvFutStep
    \/ ManageTasks
    \/ Enqueue
    \/ \E v \in 1..MaxCap : SetQueueSize(v)
    \/ ImplStart
    \/ ImplGet
    \/ SendOk

SpecDelivery == Init /\ [][NextDelivery]_vars

\* The loop runs the supervisor and the worker whenever they can go on, and
\* every send comes back.
FairSpecDelivery ==
    /\ SpecDelivery
    /\ WF_vars(EvFutStep)
    /\ WF_vars(ManageTasks)
    /\ WF_vars(ImplStart)
    /\ WF_vars(ImplGet)
    /\ WF_vars(SendOk)

\* the worker is suspended in get() of a queue object that queue_size has
\* replaced since
WaitsOnReplacedQueue == impl_pc = "get" /\ impl_q # qgen

\* C37: an item that is in the queue while the worker waits in a get() begun
\* before the capacity was changed is eventually sent (or dropped by the
\* overflow policy), the peer staying locked and every send succeeding.
C37_Claim ==
    \A i \in 1..MaxItems :
        (WaitsOnReplacedQueue /\ i \in Range(queue))
            ~> (i \in Range(delivered) \/ i \in Range(dropped))

-----------------------------------------------------------------------------
(* The channel supervisor: more claims *)

\* C38: a run of a worker function is created only for a registered function
\* that has no run yet or whose previous run is done, so that no function ever
\* has two live runs.
C38_Thm ==
    [][\A f \in AllFuns :
           Started(f) => /\ f \in Range(task_funs)
                         /\ tasks[f].st \in {"none", "done"}]_vars

\* a pass of the spawn loop has created a run of one function and left the
\* live run of another alone
C38_Witness ==
    \E f \in Funs, g \in Funs :
        /\ f # g
        /\ tasks[f].st = "new"
        /\ tasks[g].st \in {"run", "pause_ok", "pause_err"}

-----------------------------------------------------------------------------
(* The compression stage with a cancellation of its task *)

NextStage ==
    \/ \E ok \in BOOLEAN : SubmitBlock(ok)
    \/ CompressorStart
    \/ CompressorGet
    \/ CompressOk
    \/ CompressFail
    \/ HandleCompressorTaskDone
    \/ CompressorCancel

SpecStage == Init /\ [][NextStage]_vars

\* C39: once the compressor task has been cancelled, in get() or during the
\* offload, it ends and no new compressor task is launched; a task is launched
\* by the done callback only after a task that ended with a failure.
C39_Claim ==
    /\ [][comp_cancelled => comp_task' # "new"]_vars
    /\ [][(comp_task # "new" /\ comp_task' = "new") => comp_task = "crashed"]_vars

\* C40: submit_block can always be called; the blocks wait in the front queue
\* in the order they were submitted, the one being compressed was submitted
\* before all that wait and after all that were enqueued, and the compressed
\* items are enqueued, and stand in the delivery queue, in submission order;
\* this also after compression failures, cancellations and relaunches.
C40_Thm ==
    /\ Len(block_ok) < MaxBlocks => ENABLED SubmitBlock(TRUE)
    /\ Increasing(front_queue)
    /\ Increasing(pushed)
    /\ Increasing(queue)
    /\ comp_item # 0
           => /\ comp_task = "exec"
              /\ \A b \in Range(front_queue) : comp_item < b
              /\ \A b \in Range(pushed) : b < comp_item

\* after a failed compression and a relaunch, and after a cancellation, a
\* block submitted later than the failed one has been enqueued behind an
\* earlier one while another waits
C40_Witness ==
    /\ comp_cancelled
    /\ front_queue # <<>>
    /\ \E a \in Range(pushed), c \in Range(pushed), b \in 1..Len(block_ok) :
           a < b /\ b < c /\ ~block_ok[b] /\ Processed(b)

\* C32: the handles closed so far are those of the items dropped from the
\* delivery queue and of the items delivered, each closed once: no handle is
\* closed twice, an item leaving the queue by overflow or by a capacity
\* reduction has its handle closed in that step, and so has an item whose
\* send succeeded.
C32_Thm ==
    /\ [](\A i \in 1..MaxItems : CopiesIn(i, closed) <= 1)
    /\ [](closed = SeqToBag(dropped) (+) SeqToBag(delivered))
    /\ [][\A i \in 1..MaxItems :
            (i \in Range(dropped') \cup Range(delivered')
                /\ i \notin Range(dropped) \cup Range(delivered))
            => CopiesIn(i, closed) = 0 /\ CopiesIn(i, closed') = 1]_vars

\* one item was dropped by a capacity reduction, one by overflow, and a
\* third has been delivered
C32_Witness ==
    /\ resize_dropped = 1
    /\ Len(dropped) = 2
    /\ delivered # <<>>
    /\ BagCardinality(closed) = 3

====
